---- MODULE Spec2Model ----
(***************************************************************************)
(* Model of the fast-trips path finder: the lazy-invalidation              *)
(* LabelStopQueue (src/src/LabelStopQueue.h) and PathFinder::findPath with *)
(* its labeling engine (src/unnamed/part_000).                             *)
(*                                                                         *)
(* Times are doubles in the source; the model uses integers (whole         *)
(* minutes), on which the source's comparisons and sums are exact.         *)
(* Costs and labels are doubles built from sums of integers and from the   *)
(* log-sum -(1/theta)*log(sum exp(-theta*cost)).  With theta = ln 2 every  *)
(* such value is k - log2(m) for integers k and m > 0; it is kept as the   *)
(* record [k, m] with m odd, and compared exactly by cross-multiplication. *)
(* m = 0 stands for +infinity (the log of an empty sum).                   *)
(***************************************************************************)
EXTENDS Integers, Sequences, FiniteSets, TLC

VARIABLES
    label_stop_queue,   \* the LabelStopQueue object: heap, bookkeeping map, valid count
    q_op,               \* harness: the last queue call, its argument, result and error,
                        \*          and the stops that were live before it
    q_pre,              \* harness: the queue as it was before the last call
    q_live,             \* harness: stops pushed and not returned by pop_top since
    q_minpushed,        \* harness: per stop, smallest label pushed since it last became valid
    pathfinder,         \* the PathFinder object: parameters and network tables
    path_spec,          \* the PathSpecification of the request
    stop_states,        \* StopStates: stop id -> sequence of StopState
    hyperpath_ss,       \* HyperpathStopStates: stop id -> HyperpathState
    a_op,               \* harness: the last addStopState call (stop id and offered state)
    offered,            \* harness: per stop, the lowest cost offered to addStopState so far
    pc,                 \* position of the findPath call
    last_label_stop,    \* labelStops: the LabelStop processed last
    label_iterations,   \* labelStops: the iteration counter
    max_process_count,  \* PerformanceInfo::max_process_count_
    path,               \* the Path handed back by findPath
    path_info,          \* the PathInfo handed back by findPath
    l_op,               \* harness: what the last round of labelStops did, and to which stop
    rand_next           \* the state of the C library's rand()

queue_vars == <<label_stop_queue, q_op, q_pre, q_live, q_minpushed>>
queue_vars_harness == <<q_op, q_pre, q_live, q_minpushed>>
search_vars == <<pathfinder, path_spec, stop_states, hyperpath_ss, a_op, offered>>
find_vars == <<pc, last_label_stop, label_iterations, max_process_count, path, path_info,
               l_op, rand_next>>
vars == <<label_stop_queue, q_op, q_pre, q_live, q_minpushed,
          pathfinder, path_spec, stop_states, hyperpath_ss, a_op, offered,
          pc, last_label_stop, label_iterations, max_process_count, path, path_info,
          l_op, rand_next>>

-----------------------------------------------------------------------------
(* Bounds of the queue harness *)
MaxLabel == 2
NumQueueStops == 2
MaxHeap == 4

QueueStops == 1..NumQueueStops

NoStop == 0 - 1
NoLabel == [k |-> 0 - 1, m |-> 1]

-----------------------------------------------------------------------------
(* double arithmetic on costs and labels *)

\* the double n, for an integer n
CostOf(n) == [k |-> n, m |-> 1]

\* the canonical record of the value k - log2(m)
RECURSIVE NormCost(_)
NormCost(c) ==
    IF c.m = 0 THEN [k |-> 0, m |-> 0]
    ELSE IF c.m % 2 = 0 THEN NormCost([k |-> c.k - 1, m |-> c.m \div 2])
    ELSE c

\* c + n for a double c and an integer-valued double n
CostAdd(c, n) == IF c.m = 0 THEN c ELSE [k |-> c.k + n, m |-> c.m]

\* exp(-theta*a) and exp(-theta*b) brought to a common denominator
ExpPair(a, b) ==
    LET hi == IF a.k > b.k THEN a.k ELSE b.k
    IN  <<a.m * 2^(hi - a.k), b.m * 2^(hi - b.k)>>

\* a < b on doubles
CostLess(a, b) ==
    IF a.m = b.m THEN a.m # 0 /\ a.k < b.k
    ELSE ExpPair(a, b)[1] > ExpPair(a, b)[2]

\* exp(-theta*c1) + exp(-theta*c2) + ... for a sequence of costs, returned
\* as the cost c with exp(-theta*c) equal to the sum, that is
\* (-1.0/STOCH_DISPERSION_)*log(sum)
RECURSIVE LogSum(_)
LogSum(costs) ==
    IF costs = <<>> THEN [k |-> 0, m |-> 0]
    ELSE LET a == Head(costs)
             b == LogSum(Tail(costs))
         IN  IF b.m = 0 THEN NormCost(a)
             ELSE IF a.m = 0 THEN b
             ELSE LET hi == IF a.k > b.k THEN a.k ELSE b.k
                  IN NormCost([k |-> hi, m |-> ExpPair(a, b)[1] + ExpPair(a, b)[2]])

\* abs(a - b) > 0.0001: the ratio exp(-theta*a)/exp(-theta*b) is farther from
\* 1 than 2^0.0001 = 1.0000693..., bracketed here by 14427/14426
\* (x*14426 > y*14427, written without the large products)
AbsDiffExceeds(a, b) ==
    LET x == ExpPair(a, b)[1]
        y == ExpPair(a, b)[2]
    IN  IF a.m = 0 \/ b.m = 0 THEN a.m # b.m
        ELSE x - y > y \div 14426 \/ y - x > x \div 14426

-----------------------------------------------------------------------------
(* LabelStopQueue.h *)

\* struct LabelStop { double label_; int stop_id_; }
LabelStop(label, stop) == [label_ |-> label, stop_id_ |-> stop]

\* LabelStopCompare: true when cs1 is ordered after cs2 (so the top of the
\* std::priority_queue is the lowest label, ties by lowest stop id)
LabelStopCompare(cs1, cs2) ==
    IF CostLess(cs2.label_, cs1.label_) THEN TRUE
    ELSE IF CostLess(cs1.label_, cs2.label_) THEN FALSE
    ELSE cs1.stop_id_ > cs2.stop_id_

\* std::priority_queue::push: the heap is kept as the sequence of its
\* elements in pop order (equal elements are indistinguishable)
RECURSIVE priority_queue_push(_, _)
priority_queue_push(pq, val) ==
    IF pq = <<>> THEN <<val>>
    ELSE IF LabelStopCompare(Head(pq), val) THEN <<val>> \o pq
    ELSE <<Head(pq)>> \o priority_queue_push(Tail(pq), val)

\* LabelStopQueue() : valid_count_(0)
LabelStopQueue ==
    [labelstop_priority_queue_ |-> <<>>,
     labelstop_map_            |-> <<>>,
     valid_count_              |-> 0]

\* labelstop_map_[k] = v (std::map assignment, inserting the key if absent)
MapPut(m, k, v) == [x \in (DOMAIN m) \cup {k} |-> IF x = k THEN v ELSE m[x]]

\* push with the valid count also incremented when a valid stop's label is lowered
push_countsRelabel(q, val) ==
    LET m  == q.labelstop_map_
        s  == val.stop_id_
        e  == [label_ |-> val.label_, valid_ |-> TRUE,
               count_ |-> IF s \in DOMAIN m THEN m[s].count_ + 1 ELSE 1]
    IN
    IF s \in DOMAIN m /\ m[s].valid_ /\ ~(CostLess(val.label_, m[s].label_)) THEN q
    ELSE [labelstop_priority_queue_ |-> priority_queue_push(q.labelstop_priority_queue_, val),
          labelstop_map_            |-> MapPut(m, s, e),
          valid_count_              |-> q.valid_count_ + 1]

\* push that also inserts a label equal to the remembered one
push_acceptsEqual(q, val) ==
    LET m  == q.labelstop_map_
        s  == val.stop_id_
        e  == [label_ |-> val.label_, valid_ |-> TRUE,
               count_ |-> IF s \in DOMAIN m THEN m[s].count_ + 1 ELSE 1]
    IN
    IF s \in DOMAIN m /\ m[s].valid_ /\ CostLess(m[s].label_, val.label_) THEN q
    ELSE [labelstop_priority_queue_ |-> priority_queue_push(q.labelstop_priority_queue_, val),
          labelstop_map_            |-> MapPut(m, s, e),
          valid_count_              |-> IF s \in DOMAIN m /\ m[s].valid_
                                        THEN q.valid_count_ ELSE q.valid_count_ + 1]

\* push that compares labels without looking at the validity flag
push_ignoresValidFlag(q, val) ==
    LET m  == q.labelstop_map_
        s  == val.stop_id_
        e  == [label_ |-> val.label_, valid_ |-> TRUE,
               count_ |-> IF s \in DOMAIN m THEN m[s].count_ + 1 ELSE 1]
    IN
    IF s \in DOMAIN m /\ ~(CostLess(val.label_, m[s].label_)) THEN q
    ELSE [labelstop_priority_queue_ |-> priority_queue_push(q.labelstop_priority_queue_, val),
          labelstop_map_            |-> MapPut(m, s, e),
          valid_count_              |-> IF s \in DOMAIN m /\ m[s].valid_
                                        THEN q.valid_count_ ELSE q.valid_count_ + 1]

\* push that resets the instance count to 1 when it reactivates a stop
push_resetsCount(q, val) ==
    LET m  == q.labelstop_map_
        s  == val.stop_id_
        e  == [label_ |-> val.label_, valid_ |-> TRUE,
               count_ |-> IF s \in DOMAIN m /\ m[s].valid_ THEN m[s].count_ + 1 ELSE 1]
    IN
    IF s \in DOMAIN m /\ m[s].valid_ /\ ~(CostLess(val.label_, m[s].label_)) THEN q
    ELSE [labelstop_priority_queue_ |-> priority_queue_push(q.labelstop_priority_queue_, val),
          labelstop_map_            |-> MapPut(m, s, e),
          valid_count_              |-> IF s \in DOMAIN m /\ m[s].valid_
                                        THEN q.valid_count_ ELSE q.valid_count_ + 1]

\* push that keeps the remembered label of a stop already valid
push_keepsLabel(q, val) ==
    LET m  == q.labelstop_map_
        s  == val.stop_id_
    IN
    IF s \notin DOMAIN m THEN
        [labelstop_priority_queue_ |-> priority_queue_push(q.labelstop_priority_queue_, val),
         labelstop_map_            |-> MapPut(m, s, [label_ |-> val.label_, valid_ |-> TRUE, count_ |-> 1]),
         valid_count_              |-> q.valid_count_ + 1]
    ELSE IF ~m[s].valid_ THEN
        [labelstop_priority_queue_ |-> priority_queue_push(q.labelstop_priority_queue_, val),
         labelstop_map_            |-> MapPut(m, s, [label_ |-> val.label_, valid_ |-> TRUE, count_ |-> m[s].count_ + 1]),
         valid_count_              |-> q.valid_count_ + 1]
    ELSE IF CostLess(val.label_, m[s].label_) THEN
        [labelstop_priority_queue_ |-> priority_queue_push(q.labelstop_priority_queue_, val),
         labelstop_map_            |-> MapPut(m, s, [m[s] EXCEPT !.count_ = @ + 1]),
         valid_count_              |-> q.valid_count_]
    ELSE q

\* void push(const LabelStop& val)
push(q, val) ==
    LET m  == q.labelstop_map_
        s  == val.stop_id_
    IN
    IF s \notin DOMAIN m THEN
        [labelstop_priority_queue_ |-> priority_queue_push(q.labelstop_priority_queue_, val),
         labelstop_map_            |-> MapPut(m, s, [label_ |-> val.label_, valid_ |-> TRUE, count_ |-> 1]),
         valid_count_              |-> q.valid_count_ + 1]
    ELSE IF ~m[s].valid_ THEN
        [labelstop_priority_queue_ |-> priority_queue_push(q.labelstop_priority_queue_, val),
         labelstop_map_            |-> MapPut(m, s, [label_ |-> val.label_, valid_ |-> TRUE, count_ |-> m[s].count_ + 1]),
         valid_count_              |-> q.valid_count_ + 1]
    ELSE IF CostLess(val.label_, m[s].label_) THEN
        [labelstop_priority_queue_ |-> priority_queue_push(q.labelstop_priority_queue_, val),
         labelstop_map_            |-> MapPut(m, s, [label_ |-> val.label_, valid_ |-> TRUE, count_ |-> m[s].count_ + 1]),
         valid_count_              |-> q.valid_count_]
    ELSE q

\* pop_top that discards only entries of invalid stops, without comparing labels
RECURSIVE pop_top_noLabelCheck(_)
pop_top_noLabelCheck(q) ==
    LET pq == q.labelstop_priority_queue_
        m  == q.labelstop_map_
    IN
    IF pq = <<>> THEN
        [queue |-> q, ret |-> LabelStop(NoLabel, NoStop), err |-> "top of empty heap"]
    ELSE
    LET ls == Head(pq) IN
    IF ls.stop_id_ \notin DOMAIN m THEN
        [queue |-> q, ret |-> LabelStop(NoLabel, NoStop), err |-> "FATAL ERROR 1"]
    ELSE IF m[ls.stop_id_].count_ <= 0 THEN
        [queue |-> q, ret |-> LabelStop(NoLabel, NoStop), err |-> "FATAL ERROR 2"]
    ELSE IF ~m[ls.stop_id_].valid_ THEN
        pop_top_noLabelCheck([q EXCEPT !.labelstop_priority_queue_ = Tail(pq),
                          !.labelstop_map_ = MapPut(m, ls.stop_id_,
                                [m[ls.stop_id_] EXCEPT !.count_ = @ - 1])])
    ELSE
        [queue |-> [labelstop_priority_queue_ |-> Tail(pq),
                    labelstop_map_ |-> MapPut(m, ls.stop_id_,
                                [m[ls.stop_id_] EXCEPT !.valid_ = FALSE, !.count_ = @ - 1]),
                    valid_count_ |-> q.valid_count_ - 1],
         ret |-> ls, err |-> "none"]

\* LabelStop pop_top(...): the while(true) loop.  The result carries the queue
\* after the call, the returned LabelStop and what went wrong, if anything:
\* the two thrown LabelStopQueueErrors, or top() called on an empty heap.
RECURSIVE pop_top(_)
pop_top(q) ==
    LET pq == q.labelstop_priority_queue_
        m  == q.labelstop_map_
    IN
    IF pq = <<>> THEN
        [queue |-> q, ret |-> LabelStop(NoLabel, NoStop), err |-> "top of empty heap"]
    ELSE
    LET ls == Head(pq) IN
    IF ls.stop_id_ \notin DOMAIN m THEN
        [queue |-> q, ret |-> LabelStop(NoLabel, NoStop), err |-> "FATAL ERROR 1"]
    ELSE IF m[ls.stop_id_].count_ <= 0 THEN
        [queue |-> q, ret |-> LabelStop(NoLabel, NoStop), err |-> "FATAL ERROR 2"]
    ELSE IF ~m[ls.stop_id_].valid_ \/ m[ls.stop_id_].label_ # ls.label_ THEN
        \* Skipping stop A / Skipping stop B
        pop_top([q EXCEPT !.labelstop_priority_queue_ = Tail(pq),
                          !.labelstop_map_ = MapPut(m, ls.stop_id_,
                                [m[ls.stop_id_] EXCEPT !.count_ = @ - 1])])
    ELSE
        [queue |-> [labelstop_priority_queue_ |-> Tail(pq),
                    labelstop_map_ |-> MapPut(m, ls.stop_id_,
                                [m[ls.stop_id_] EXCEPT !.valid_ = FALSE, !.count_ = @ - 1]),
                    valid_count_ |-> q.valid_count_ - 1],
         ret |-> ls, err |-> "none"]

\* size_t size() const
size(q) == q.valid_count_

\* bool empty() const
empty(q) == (q.valid_count_ = 0)

-----------------------------------------------------------------------------
(* Queue harness: any sequence of push and pop_top calls, pop_top being      *)
(* called only while the queue is not empty (as labelStops does).            *)

Labels == {CostOf(l) : l \in 0..MaxLabel}

\* no findPath call is in progress
NoFindPath ==
    /\ pc = "idle"
    /\ last_label_stop = <<>>
    /\ label_iterations = 0
    /\ max_process_count = 0
    /\ path = <<>>
    /\ path_info = <<>>
    /\ l_op = <<>>
    /\ rand_next = 1

InitQueue ==
    /\ label_stop_queue = LabelStopQueue
    /\ q_op = [op |-> "new", val |-> LabelStop(NoLabel, NoStop),
               ret |-> LabelStop(NoLabel, NoStop), err |-> "none", live |-> {}]
    /\ q_pre = LabelStopQueue
    /\ q_live = {}
    /\ q_minpushed = [s \in QueueStops |-> NoLabel]
    /\ pathfinder = <<>>
    /\ path_spec = <<>>
    /\ stop_states = <<>>
    /\ hyperpath_ss = <<>>
    /\ a_op = <<>>
    /\ offered = <<>>
    /\ NoFindPath

QPush ==
    /\ q_op.err = "none"
    /\ Len(label_stop_queue.labelstop_priority_queue_) < MaxHeap
    /\ \E l \in Labels, s \in QueueStops :
         LET val == LabelStop(l, s) IN
         /\ label_stop_queue' = push(label_stop_queue, val)
         /\ q_op' = [op |-> "push", val |-> val,
                     ret |-> LabelStop(NoLabel, NoStop), err |-> "none", live |-> q_live]
         /\ q_pre' = label_stop_queue
         /\ q_live' = q_live \cup {s}
         /\ q_minpushed' = [q_minpushed EXCEPT ![s] =
                               IF s \in q_live /\ CostLess(@, l) THEN @ ELSE l]
         /\ UNCHANGED <<search_vars, find_vars>>

QPop ==
    /\ q_op.err = "none"
    /\ ~empty(label_stop_queue)
    /\ LET r == pop_top(label_stop_queue) IN
         /\ label_stop_queue' = r.queue
         /\ q_op' = [op |-> "pop_top", val |-> LabelStop(NoLabel, NoStop),
                     ret |-> r.ret, err |-> r.err, live |-> q_live]
         /\ q_pre' = label_stop_queue
         /\ q_live' = q_live \ {r.ret.stop_id_}
         /\ UNCHANGED q_minpushed
         /\ UNCHANGED <<search_vars, find_vars>>

NextQueue == QPush \/ QPop

SpecQueue == InitQueue /\ [][NextQueue]_vars

-----------------------------------------------------------------------------
(* pathfinder.h: link modes and StopState; part_000: addStopState *)

MODE_ACCESS   == 0 - 100
MODE_EGRESS   == 0 - 101
MODE_TRANSFER == 0 - 102
MODE_TRANSIT  == 0 - 103

\* the vector stop_states[stop_id], empty when the key is absent
StatesAt(ss_map, stop_id) ==
    IF stop_id \in DOMAIN ss_map THEN ss_map[stop_id] ELSE <<>>

\* the substitution test of addStopState: same link
SameLink(ss_check, ss) ==
    /\ ss_check.deparr_mode_   = ss.deparr_mode_
    /\ ss_check.trip_id_       = ss.trip_id_
    /\ ss_check.stop_succpred_ = ss.stop_succpred_
    /\ ss_check.seq_succpred_  = ss.seq_succpred_

\* too early (outbound) or too late (inbound) for the window anchored at t
OutsideWindow(pf, ps, deparr_time, t) ==
    \/ ( ps.outbound_ /\ deparr_time < t - pf.TIME_WINDOW_)
    \/ (~ps.outbound_ /\ deparr_time > t + pf.TIME_WINDOW_)

SeqCosts(states) == [i \in 1..Len(states) |-> states[i].cost_]

\* addStopState, deterministic branch, replacing on a higher cost
addStopStateDeterministic_keepsHigher(stop_id, ss, S) ==
    LET cur == StatesAt(S.stop_states, stop_id)
        ls  == LabelStop(ss.cost_, stop_id)
    IN  IF Len(cur) = 0 \/ CostLess(cur[1].cost_, ss.cost_) THEN
            [S EXCEPT !.stop_states      = MapPut(@, stop_id, <<ss>>),
                      !.label_stop_queue = push(@, ls)]
        ELSE S

\* addStopState, deterministic branch
addStopStateDeterministic(stop_id, ss, S) ==
    LET cur == StatesAt(S.stop_states, stop_id)
        ls  == LabelStop(ss.cost_, stop_id)
    IN  IF Len(cur) = 0 THEN
            [S EXCEPT !.stop_states      = MapPut(@, stop_id, <<ss>>),
                      !.label_stop_queue = push(@, ls)]
        ELSE IF CostLess(ss.cost_, cur[1].cost_) THEN
            [S EXCEPT !.stop_states      = MapPut(@, stop_id, [cur EXCEPT ![1] = ss]),
                      !.label_stop_queue = push(@, ls)]
        ELSE S

\* addStopState, hyperpath branch, without the window pruning
addStopStateHyperpath_noPrune(pf, ps, stop_id, ss, S) ==
    IF stop_id \notin DOMAIN S.hyperpath_ss THEN
        [S EXCEPT
           !.hyperpath_ss = MapPut(@, stop_id,
                [latest_dep_earliest_arr_ |-> ss.deparr_time_,
                 lder_trip_id_            |-> ss.trip_id_,
                 hyperpath_cost_          |-> ss.cost_,
                 process_count_           |-> 0]),
           !.stop_states = MapPut(@, stop_id, Append(StatesAt(S.stop_states, stop_id), ss)),
           !.label_stop_queue = push(@, LabelStop(ss.cost_, stop_id))]
    ELSE
    LET hss      == S.hyperpath_ss[stop_id]
        rejected == OutsideWindow(pf, ps, ss.deparr_time_, hss.latest_dep_earliest_arr_)
        window   == \/ ( ps.outbound_ /\ ss.deparr_time_ > hss.latest_dep_earliest_arr_)
                    \/ (~ps.outbound_ /\ ss.deparr_time_ < hss.latest_dep_earliest_arr_)
        hss1     == IF window
                    THEN [hss EXCEPT !.latest_dep_earliest_arr_ = ss.deparr_time_,
                                     !.lder_trip_id_            = ss.trip_id_]
                    ELSE hss
        label1   == IF window THEN hss.hyperpath_cost_ ELSE ss.cost_
    IN
    IF rejected THEN [S EXCEPT !.hyperpath_ss = MapPut(@, stop_id, hss1)]
    ELSE
    LET cur      == StatesAt(S.stop_states, stop_id)
        found    == \E i \in 1..Len(cur) : SameLink(cur[i], ss)
        \* replace it with updated version
        cur1     == [i \in 1..Len(cur) |-> IF SameLink(cur[i], ss) THEN ss ELSE cur[i]]
        \* window-pruning
        Inside(st) == ~OutsideWindow(pf, ps, st.deparr_time_, hss1.latest_dep_earliest_arr_)
        kept     == cur1
        cur2     == IF found THEN kept ELSE Append(kept, ss)
        hyperpath_cost == LogSum(SeqCosts(cur2))
        changed  == AbsDiffExceeds(hyperpath_cost, hss1.hyperpath_cost_)
        hss2     == IF changed THEN [hss1 EXCEPT !.hyperpath_cost_ = hyperpath_cost] ELSE hss1
        label2   == IF changed THEN hyperpath_cost ELSE label1
        update_state == window \/ changed
    IN  [S EXCEPT
           !.hyperpath_ss = MapPut(@, stop_id, hss2),
           !.stop_states  = MapPut(@, stop_id, cur2),
           !.label_stop_queue = IF update_state THEN push(@, LabelStop(label2, stop_id)) ELSE @]

\* addStopState, hyperpath branch, with the anchor following every state offered
addStopStateHyperpath_anchorFollows(pf, ps, stop_id, ss, S) ==
    IF stop_id \notin DOMAIN S.hyperpath_ss THEN
        [S EXCEPT
           !.hyperpath_ss = MapPut(@, stop_id,
                [latest_dep_earliest_arr_ |-> ss.deparr_time_,
                 lder_trip_id_            |-> ss.trip_id_,
                 hyperpath_cost_          |-> ss.cost_,
                 process_count_           |-> 0]),
           !.stop_states = MapPut(@, stop_id, Append(StatesAt(S.stop_states, stop_id), ss)),
           !.label_stop_queue = push(@, LabelStop(ss.cost_, stop_id))]
    ELSE
    LET hss      == S.hyperpath_ss[stop_id]
        rejected == OutsideWindow(pf, ps, ss.deparr_time_, hss.latest_dep_earliest_arr_)
        window   == \/ ( ps.outbound_ /\ ss.deparr_time_ > hss.latest_dep_earliest_arr_)
                    \/ (~ps.outbound_ /\ ss.deparr_time_ < hss.latest_dep_earliest_arr_)
        hss1     == IF ss.deparr_time_ # hss.latest_dep_earliest_arr_
                    THEN [hss EXCEPT !.latest_dep_earliest_arr_ = ss.deparr_time_,
                                     !.lder_trip_id_            = ss.trip_id_]
                    ELSE hss
        label1   == IF window THEN hss.hyperpath_cost_ ELSE ss.cost_
    IN
    IF rejected THEN [S EXCEPT !.hyperpath_ss = MapPut(@, stop_id, hss1)]
    ELSE
    LET cur      == StatesAt(S.stop_states, stop_id)
        found    == \E i \in 1..Len(cur) : SameLink(cur[i], ss)
        \* replace it with updated version
        cur1     == [i \in 1..Len(cur) |-> IF SameLink(cur[i], ss) THEN ss ELSE cur[i]]
        \* window-pruning
        Inside(st) == ~OutsideWindow(pf, ps, st.deparr_time_, hss1.latest_dep_earliest_arr_)
        kept     == SelectSeq(cur1, Inside)
        cur2     == IF found THEN kept ELSE Append(kept, ss)
        hyperpath_cost == LogSum(SeqCosts(cur2))
        changed  == AbsDiffExceeds(hyperpath_cost, hss1.hyperpath_cost_)
        hss2     == IF changed THEN [hss1 EXCEPT !.hyperpath_cost_ = hyperpath_cost] ELSE hss1
        label2   == IF changed THEN hyperpath_cost ELSE label1
        update_state == window \/ changed
    IN  [S EXCEPT
           !.hyperpath_ss = MapPut(@, stop_id, hss2),
           !.stop_states  = MapPut(@, stop_id, cur2),
           !.label_stop_queue = IF update_state THEN push(@, LabelStop(label2, stop_id)) ELSE @]

\* addStopState, hyperpath branch, without the window test on the state offered
addStopStateHyperpath_noReject(pf, ps, stop_id, ss, S) ==
    IF stop_id \notin DOMAIN S.hyperpath_ss THEN
        [S EXCEPT
           !.hyperpath_ss = MapPut(@, stop_id,
                [latest_dep_earliest_arr_ |-> ss.deparr_time_,
                 lder_trip_id_            |-> ss.trip_id_,
                 hyperpath_cost_          |-> ss.cost_,
                 process_count_           |-> 0]),
           !.stop_states = MapPut(@, stop_id, Append(StatesAt(S.stop_states, stop_id), ss)),
           !.label_stop_queue = push(@, LabelStop(ss.cost_, stop_id))]
    ELSE
    LET hss      == S.hyperpath_ss[stop_id]
        rejected == FALSE
        window   == \/ ( ps.outbound_ /\ ss.deparr_time_ > hss.latest_dep_earliest_arr_)
                    \/ (~ps.outbound_ /\ ss.deparr_time_ < hss.latest_dep_earliest_arr_)
        hss1     == IF window
                    THEN [hss EXCEPT !.latest_dep_earliest_arr_ = ss.deparr_time_,
                                     !.lder_trip_id_            = ss.trip_id_]
                    ELSE hss
        label1   == IF window THEN hss.hyperpath_cost_ ELSE ss.cost_
    IN
    IF rejected THEN [S EXCEPT !.hyperpath_ss = MapPut(@, stop_id, hss1)]
    ELSE
    LET cur      == StatesAt(S.stop_states, stop_id)
        found    == \E i \in 1..Len(cur) : SameLink(cur[i], ss)
        \* replace it with updated version
        cur1     == [i \in 1..Len(cur) |-> IF SameLink(cur[i], ss) THEN ss ELSE cur[i]]
        \* window-pruning
        Inside(st) == ~OutsideWindow(pf, ps, st.deparr_time_, hss1.latest_dep_earliest_arr_)
        kept     == SelectSeq(cur1, Inside)
        cur2     == IF found THEN kept ELSE Append(kept, ss)
        hyperpath_cost == LogSum(SeqCosts(cur2))
        changed  == AbsDiffExceeds(hyperpath_cost, hss1.hyperpath_cost_)
        hss2     == IF changed THEN [hss1 EXCEPT !.hyperpath_cost_ = hyperpath_cost] ELSE hss1
        label2   == IF changed THEN hyperpath_cost ELSE label1
        update_state == window \/ changed
    IN  [S EXCEPT
           !.hyperpath_ss = MapPut(@, stop_id, hss2),
           !.stop_states  = MapPut(@, stop_id, cur2),
           !.label_stop_queue = IF update_state THEN push(@, LabelStop(label2, stop_id)) ELSE @]

\* addStopState, hyperpath branch, tallying the state offered a second time
addStopStateHyperpath_talliesTwice(pf, ps, stop_id, ss, S) ==
    IF stop_id \notin DOMAIN S.hyperpath_ss THEN
        [S EXCEPT
           !.hyperpath_ss = MapPut(@, stop_id,
                [latest_dep_earliest_arr_ |-> ss.deparr_time_,
                 lder_trip_id_            |-> ss.trip_id_,
                 hyperpath_cost_          |-> ss.cost_,
                 process_count_           |-> 0]),
           !.stop_states = MapPut(@, stop_id, Append(StatesAt(S.stop_states, stop_id), ss)),
           !.label_stop_queue = push(@, LabelStop(ss.cost_, stop_id))]
    ELSE
    LET hss      == S.hyperpath_ss[stop_id]
        rejected == OutsideWindow(pf, ps, ss.deparr_time_, hss.latest_dep_earliest_arr_)
        window   == \/ ( ps.outbound_ /\ ss.deparr_time_ > hss.latest_dep_earliest_arr_)
                    \/ (~ps.outbound_ /\ ss.deparr_time_ < hss.latest_dep_earliest_arr_)
        hss1     == IF window
                    THEN [hss EXCEPT !.latest_dep_earliest_arr_ = ss.deparr_time_,
                                     !.lder_trip_id_            = ss.trip_id_]
                    ELSE hss
        label1   == IF window THEN hss.hyperpath_cost_ ELSE ss.cost_
    IN
    IF rejected THEN [S EXCEPT !.hyperpath_ss = MapPut(@, stop_id, hss1)]
    ELSE
    LET cur      == StatesAt(S.stop_states, stop_id)
        found    == \E i \in 1..Len(cur) : SameLink(cur[i], ss)
        \* replace it with updated version
        cur1     == [i \in 1..Len(cur) |-> IF SameLink(cur[i], ss) THEN ss ELSE cur[i]]
        \* window-pruning
        Inside(st) == ~OutsideWindow(pf, ps, st.deparr_time_, hss1.latest_dep_earliest_arr_)
        kept     == SelectSeq(cur1, Inside)
        cur2     == IF found THEN kept ELSE Append(kept, ss)
        hyperpath_cost == LogSum(SeqCosts(Append(kept, ss)))
        changed  == AbsDiffExceeds(hyperpath_cost, hss1.hyperpath_cost_)
        hss2     == IF changed THEN [hss1 EXCEPT !.hyperpath_cost_ = hyperpath_cost] ELSE hss1
        label2   == IF changed THEN hyperpath_cost ELSE label1
        update_state == window \/ changed
    IN  [S EXCEPT
           !.hyperpath_ss = MapPut(@, stop_id, hss2),
           !.stop_states  = MapPut(@, stop_id, cur2),
           !.label_stop_queue = IF update_state THEN push(@, LabelStop(label2, stop_id)) ELSE @]

\* addStopState, hyperpath branch, appending without the search for the link
addStopStateHyperpath_noSubstitute(pf, ps, stop_id, ss, S) ==
    IF stop_id \notin DOMAIN S.hyperpath_ss THEN
        [S EXCEPT
           !.hyperpath_ss = MapPut(@, stop_id,
                [latest_dep_earliest_arr_ |-> ss.deparr_time_,
                 lder_trip_id_            |-> ss.trip_id_,
                 hyperpath_cost_          |-> ss.cost_,
                 process_count_           |-> 0]),
           !.stop_states = MapPut(@, stop_id, Append(StatesAt(S.stop_states, stop_id), ss)),
           !.label_stop_queue = push(@, LabelStop(ss.cost_, stop_id))]
    ELSE
    LET hss      == S.hyperpath_ss[stop_id]
        rejected == OutsideWindow(pf, ps, ss.deparr_time_, hss.latest_dep_earliest_arr_)
        window   == \/ ( ps.outbound_ /\ ss.deparr_time_ > hss.latest_dep_earliest_arr_)
                    \/ (~ps.outbound_ /\ ss.deparr_time_ < hss.latest_dep_earliest_arr_)
        hss1     == IF window
                    THEN [hss EXCEPT !.latest_dep_earliest_arr_ = ss.deparr_time_,
                                     !.lder_trip_id_            = ss.trip_id_]
                    ELSE hss
        label1   == IF window THEN hss.hyperpath_cost_ ELSE ss.cost_
    IN
    IF rejected THEN [S EXCEPT !.hyperpath_ss = MapPut(@, stop_id, hss1)]
    ELSE
    LET cur      == StatesAt(S.stop_states, stop_id)
        found    == FALSE
        \* replace it with updated version
        cur1     == cur
        \* window-pruning
        Inside(st) == ~OutsideWindow(pf, ps, st.deparr_time_, hss1.latest_dep_earliest_arr_)
        kept     == SelectSeq(cur1, Inside)
        cur2     == IF found THEN kept ELSE Append(kept, ss)
        hyperpath_cost == LogSum(SeqCosts(cur2))
        changed  == AbsDiffExceeds(hyperpath_cost, hss1.hyperpath_cost_)
        hss2     == IF changed THEN [hss1 EXCEPT !.hyperpath_cost_ = hyperpath_cost] ELSE hss1
        label2   == IF changed THEN hyperpath_cost ELSE label1
        update_state == window \/ changed
    IN  [S EXCEPT
           !.hyperpath_ss = MapPut(@, stop_id, hss2),
           !.stop_states  = MapPut(@, stop_id, cur2),
           !.label_stop_queue = IF update_state THEN push(@, LabelStop(label2, stop_id)) ELSE @]

\* addStopState, hyperpath branch
addStopStateHyperpath(pf, ps, stop_id, ss, S) ==
    IF stop_id \notin DOMAIN S.hyperpath_ss THEN
        [S EXCEPT
           !.hyperpath_ss = MapPut(@, stop_id,
                [latest_dep_earliest_arr_ |-> ss.deparr_time_,
                 lder_trip_id_            |-> ss.trip_id_,
                 hyperpath_cost_          |-> ss.cost_,
                 process_count_           |-> 0]),
           !.stop_states = MapPut(@, stop_id, Append(StatesAt(S.stop_states, stop_id), ss)),
           !.label_stop_queue = push(@, LabelStop(ss.cost_, stop_id))]
    ELSE
    LET hss      == S.hyperpath_ss[stop_id]
        rejected == OutsideWindow(pf, ps, ss.deparr_time_, hss.latest_dep_earliest_arr_)
        window   == \/ ( ps.outbound_ /\ ss.deparr_time_ > hss.latest_dep_earliest_arr_)
                    \/ (~ps.outbound_ /\ ss.deparr_time_ < hss.latest_dep_earliest_arr_)
        hss1     == IF window
                    THEN [hss EXCEPT !.latest_dep_earliest_arr_ = ss.deparr_time_,
                                     !.lder_trip_id_            = ss.trip_id_]
                    ELSE hss
        label1   == IF window THEN hss.hyperpath_cost_ ELSE ss.cost_
    IN
    IF rejected THEN [S EXCEPT !.hyperpath_ss = MapPut(@, stop_id, hss1)]
    ELSE
    LET cur      == StatesAt(S.stop_states, stop_id)
        found    == \E i \in 1..Len(cur) : SameLink(cur[i], ss)
        \* replace it with updated version
        cur1     == [i \in 1..Len(cur) |-> IF SameLink(cur[i], ss) THEN ss ELSE cur[i]]
        \* window-pruning
        Inside(st) == ~OutsideWindow(pf, ps, st.deparr_time_, hss1.latest_dep_earliest_arr_)
        kept     == SelectSeq(cur1, Inside)
        cur2     == IF found THEN kept ELSE Append(kept, ss)
        hyperpath_cost == LogSum(SeqCosts(cur2))
        changed  == AbsDiffExceeds(hyperpath_cost, hss1.hyperpath_cost_)
        hss2     == IF changed THEN [hss1 EXCEPT !.hyperpath_cost_ = hyperpath_cost] ELSE hss1
        label2   == IF changed THEN hyperpath_cost ELSE label1
        update_state == window \/ changed
    IN  [S EXCEPT
           !.hyperpath_ss = MapPut(@, stop_id, hss2),
           !.stop_states  = MapPut(@, stop_id, cur2),
           !.label_stop_queue = IF update_state THEN push(@, LabelStop(label2, stop_id)) ELSE @]

\* void PathFinder::addStopState(path_spec, trace_file, stop_id, ss,
\*                               stop_states, label_stop_queue, hyperpath_ss)
\* S carries the three containers the call may change.
addStopState(pf, ps, stop_id, ss, S) ==
    IF ~ps.hyperpath_ THEN addStopStateDeterministic(stop_id, ss, S)
    ELSE addStopStateHyperpath(pf, ps, stop_id, ss, S)

-----------------------------------------------------------------------------
(* addStopState harness: any sequence of addStopState calls of one request  *)

NumAddStops == 1
MaxAddTime == 3
MaxAdds == 3

AddStops == 1..NumAddStops
AddTimes == 0..MaxAddTime
AddTimeWindows == {0, 1}

\* the links offered: two trips and a transfer from one neighbouring stop
AddLinks == {<<MODE_TRANSIT, 1>>, <<MODE_TRANSIT, 2>>, <<MODE_TRANSFER, 1>>}

AddCosts == {CostOf(1), CostOf(2)}

\* struct StopState
StopState(deparr_time, deparr_mode, trip_id, stop_succpred, seq, seq_succpred, link_time, link_cost, cost, iteration, arrdep_time) ==
    [deparr_time_ |-> deparr_time, deparr_mode_ |-> deparr_mode, trip_id_ |-> trip_id,
     stop_succpred_ |-> stop_succpred, seq_ |-> seq, seq_succpred_ |-> seq_succpred,
     link_time_ |-> link_time, link_cost_ |-> link_cost, cost_ |-> cost,
     iteration_ |-> iteration, arrdep_time_ |-> arrdep_time]

InitAdd ==
    /\ label_stop_queue = LabelStopQueue
    /\ q_op = <<>>
    /\ q_pre = <<>>
    /\ q_live = {}
    /\ q_minpushed = <<>>
    /\ \E tw \in AddTimeWindows : pathfinder = [TIME_WINDOW_ |-> tw]
    /\ \E ob \in BOOLEAN, hp \in BOOLEAN :
          path_spec = [outbound_ |-> ob, hyperpath_ |-> hp]
    /\ stop_states = <<>>
    /\ hyperpath_ss = <<>>
    /\ a_op = [n |-> 0, stop_id |-> NoStop, ss |-> <<>>, len_before |-> 0]
    /\ offered = <<>>
    /\ NoFindPath

AddStopState ==
    /\ a_op.n < MaxAdds
    /\ \E stop_id \in AddStops, t \in AddTimes, link \in AddLinks, c \in AddCosts :
         LET ss == StopState(t, link[1], link[2], NumAddStops + 1, 1, 2, 1, c, c, 1, t)
             S  == [stop_states |-> stop_states, label_stop_queue |-> label_stop_queue,
                    hyperpath_ss |-> hyperpath_ss]
             R  == addStopState(pathfinder, path_spec, stop_id, ss, S)
         IN  /\ stop_states' = R.stop_states
             /\ label_stop_queue' = R.label_stop_queue
             /\ hyperpath_ss' = R.hyperpath_ss
             /\ a_op' = [n |-> a_op.n + 1, stop_id |-> stop_id, ss |-> ss,
                          len_before |-> Len(StatesAt(stop_states, stop_id))]
             /\ offered' = MapPut(offered, stop_id,
                                  IF stop_id \in DOMAIN offered /\ CostLess(offered[stop_id], c)
                                  THEN offered[stop_id] ELSE c)
    /\ UNCHANGED <<q_op, q_pre, q_live, q_minpushed, pathfinder, path_spec, find_vars>>

NextAdd == AddStopState

SpecAdd == InitAdd /\ [][NextAdd]_vars

-----------------------------------------------------------------------------
(* part_000: constants, supply tables and small helpers of PathFinder *)

MAX_COST == 999999

\* pathfinder.h: is this mode a transit trip?
isTrip(mode) == mode = MODE_TRANSIT

\* the keys of a std::map<int, ...>, in iteration order
RECURSIVE SortedSeq(_)
SortedSeq(keys) ==
    IF keys = {} THEN <<>>
    ELSE LET lo == CHOOSE x \in keys : \A y \in keys : x <= y
         IN  <<lo>> \o SortedSeq(keys \ {lo})

\* struct TripStopTime
TripStopTime(trip_id, seq, stop_id, arrive_time, depart_time) ==
    [trip_id_ |-> trip_id, seq_ |-> seq, stop_id_ |-> stop_id,
     arrive_time_ |-> arrive_time, depart_time_ |-> depart_time]

\* struct UserClassMode
UserClassMode(user_class, demand_mode_type, demand_mode) ==
    <<user_class, demand_mode_type, demand_mode>>

\* struct TripStop, the key of bump_wait_
TripStop(trip_id, seq, stop_id) == <<trip_id, seq, stop_id>>

\* PathFinder::initializeSupply: the two stop-time indexes built from the
\* rows handed over, each in the order of the rows
initializeSupply(stoptimes) ==
    LET trip_ids == {stoptimes[i].trip_id_ : i \in 1..Len(stoptimes)}
        stop_ids == {stoptimes[i].stop_id_ : i \in 1..Len(stoptimes)}
    IN  [trip_stop_times_ |->
            [t \in trip_ids |->
                LET OfTrip(stt) == stt.trip_id_ = t IN SelectSeq(stoptimes, OfTrip)],
         stop_trip_times_ |->
            [s \in stop_ids |->
                LET AtStop(stt) == stt.stop_id_ = s IN SelectSeq(stoptimes, AtStop)]]

\* double PathFinder::tallyLinkCost: the sum of weight x attribute over the
\* weights whose attribute is present
RECURSIVE tallyLinkCostOver(_, _, _)
tallyLinkCostOver(names, weights, attributes) ==
    IF names = {} THEN 0
    ELSE LET n == CHOOSE x \in names : TRUE
         IN  (IF n \in DOMAIN attributes THEN weights[n] * attributes[n] ELSE 0)
             + tallyLinkCostOver(names \ {n}, weights, attributes)

tallyLinkCost(weights, attributes) ==
    tallyLinkCostOver(DOMAIN weights, weights, attributes)

\* attributes[name] = value
SetAttr(attributes, name, value) ==
    [x \in (DOMAIN attributes) \cup {name} |-> IF x = name THEN value ELSE attributes[x]]

\* getTripsWithinTime with both ends of the window closed
getTripsWithinTime_closedWindow(pf, stop_id, outbound, timepoint) ==
    IF stop_id \notin DOMAIN pf.stop_trip_times_ THEN <<>>
    ELSE LET Within(it) ==
                 \/ (outbound /\ it.arrive_time_ <= timepoint
                              /\ it.arrive_time_ >= timepoint - pf.TIME_WINDOW_)
                 \/ (~outbound /\ it.depart_time_ >= timepoint
                               /\ it.depart_time_ <= timepoint + pf.TIME_WINDOW_)
         IN  SelectSeq(pf.stop_trip_times_[stop_id], Within)

\* void PathFinder::getTripsWithinTime
getTripsWithinTime(pf, stop_id, outbound, timepoint) ==
    IF stop_id \notin DOMAIN pf.stop_trip_times_ THEN <<>>
    ELSE LET Within(it) ==
                 \/ (outbound /\ it.arrive_time_ <= timepoint
                              /\ it.arrive_time_ > timepoint - pf.TIME_WINDOW_)
                 \/ (~outbound /\ it.depart_time_ >= timepoint
                               /\ it.depart_time_ < timepoint + pf.TIME_WINDOW_)
         IN  SelectSeq(pf.stop_trip_times_[stop_id], Within)

\* double PathFinder::calculateNonwalkLabel
calculateNonwalkLabel(current_stop_state) ==
    LET NonWalk(st) == /\ st.deparr_mode_ # MODE_EGRESS
                       /\ st.deparr_mode_ # MODE_TRANSFER
                       /\ st.deparr_mode_ # MODE_ACCESS
        nonwalk_label == LogSum(SeqCosts(SelectSeq(current_stop_state, NonWalk)))
    IN  IF nonwalk_label.m = 0 THEN CostOf(MAX_COST) ELSE nonwalk_label

\* the (supply mode, stop) pairs visited by the nested loops of
\* initializeStopStates and finalizeTazState over the links of one TAZ
RECURSIVE AccessLinkSeq(_, _)
AccessLinkSeq(taz_links, supply_modes) ==
    IF supply_modes = <<>> THEN <<>>
    ELSE LET supply_mode_num == Head(supply_modes)
             stops == IF supply_mode_num \in DOMAIN taz_links
                      THEN SortedSeq(DOMAIN taz_links[supply_mode_num]) ELSE <<>>
         IN  [i \in 1..Len(stops) |-> <<supply_mode_num, stops[i]>>]
             \o AccessLinkSeq(taz_links, Tail(supply_modes))

-----------------------------------------------------------------------------
(* part_000: seeding and the relaxation of transfers *)

\* 1.0 for outbound, -1.0 for inbound
dir_factor(ps) == IF ps.outbound_ THEN 1 ELSE 0 - 1

\* the loop of initializeStopStates over the links of the start TAZ
RECURSIVE initializeStopStatesLinks(_, _, _, _)
initializeStopStatesLinks(pf, ps, links, S) ==
    IF links = <<>> THEN S
    ELSE
    LET start_taz_id    == IF ps.outbound_ THEN ps.destination_taz_id_ ELSE ps.origin_taz_id_
        ucm             == UserClassMode(ps.user_class_,
                                         IF ps.outbound_ THEN MODE_EGRESS ELSE MODE_ACCESS,
                                         IF ps.outbound_ THEN ps.egress_mode_ ELSE ps.access_mode_)
        supply_mode_num == Head(links)[1]
        stop_id         == Head(links)[2]
        link_attr0      == pf.taz_access_links_[start_taz_id][supply_mode_num][stop_id]
        attr_time       == link_attr0["time_min"]
        deparr_time     == ps.preferred_time_ - (attr_time * dir_factor(ps))
        link_attr       == SetAttr(link_attr0, "preferred_delay_min", 0)
        cost            == IF ps.hyperpath_
                           THEN tallyLinkCost(pf.weight_lookup_[ucm][supply_mode_num], link_attr)
                           ELSE attr_time
        ss == StopState(deparr_time,
                        IF ps.outbound_ THEN MODE_EGRESS ELSE MODE_ACCESS,
                        supply_mode_num, start_taz_id, 0 - 1, 0 - 1,
                        attr_time, cost, CostOf(cost), 0, ps.preferred_time_)
    IN  initializeStopStatesLinks(pf, ps, Tail(links), addStopState(pf, ps, stop_id, ss, S))

\* initializeStopStates falling back to the walk weights when none are
\* configured for the requested mode
initializeStopStates_walkWeights(pf, ps, S) ==
    LET start_taz_id == IF ps.outbound_ THEN ps.destination_taz_id_ ELSE ps.origin_taz_id_
        walk         == [ps EXCEPT !.egress_mode_ = "walk", !.access_mode_ = "walk"]
        ucm          == UserClassMode(ps.user_class_,
                                      IF ps.outbound_ THEN MODE_EGRESS ELSE MODE_ACCESS, "walk")
    IN  IF start_taz_id \notin DOMAIN pf.taz_access_links_ THEN S
        ELSE initializeStopStatesLinks(pf, walk,
                 AccessLinkSeq(pf.taz_access_links_[start_taz_id],
                               SortedSeq(DOMAIN pf.weight_lookup_[ucm])), S)

\* bool PathFinder::initializeStopStates
initializeStopStates(pf, ps, S) ==
    LET start_taz_id == IF ps.outbound_ THEN ps.destination_taz_id_ ELSE ps.origin_taz_id_
        ucm          == UserClassMode(ps.user_class_,
                                      IF ps.outbound_ THEN MODE_EGRESS ELSE MODE_ACCESS,
                                      IF ps.outbound_ THEN ps.egress_mode_ ELSE ps.access_mode_)
    IN  IF start_taz_id \notin DOMAIN pf.taz_access_links_ THEN S
        ELSE IF ucm \notin DOMAIN pf.weight_lookup_ THEN S
        ELSE initializeStopStatesLinks(pf, ps,
                 AccessLinkSeq(pf.taz_access_links_[start_taz_id],
                               SortedSeq(DOMAIN pf.weight_lookup_[ucm])), S)

\* the loop of updateStopStatesForTransfers over the transfer links of the
\* current stop; loc holds the locals set before the loop
RECURSIVE updateStopStatesForTransfersLinks(_, _, _, _, _, _, _)
updateStopStatesForTransfersLinks(pf, ps, S, label_iteration, current_label_stop, loc, xfer_stops) ==
    IF xfer_stops = <<>> THEN S
    ELSE
    LET current_stop_state == S.stop_states[current_label_stop.stop_id_]
        xfer_stop_id   == Head(xfer_stops)
        xfer_attr      == loc.transfer_map[xfer_stop_id]
        transfer_time  == xfer_attr["time_min"]
        deparr_time0   == loc.latest_dep_earliest_arr - (transfer_time * dir_factor(ps))
        ts             == TripStop(loc.current_trip, current_stop_state[1].seq_,
                                   current_label_stop.stop_id_)
        bumped         == ~ps.hyperpath_ /\ ps.outbound_ /\ ts \in DOMAIN pf.bump_wait_
        latest_time    == pf.bump_wait_[ts]
        link_cost      == IF ps.hyperpath_
                          THEN tallyLinkCost(loc.transfer_weights,
                                             SetAttr(xfer_attr, "transfer_penalty", 1))
                          ELSE transfer_time
        cost0          == IF ps.hyperpath_
                          THEN CostAdd(loc.nonwalk_label, link_cost)
                          ELSE CostAdd(current_label_stop.label_, link_cost)
        cost           == IF bumped
                          THEN CostAdd(cost0, (current_stop_state[1].deparr_time_ - latest_time)
                                              + pf.BUMP_BUFFER_)
                          ELSE cost0
        deparr_time    == IF bumped THEN latest_time - transfer_time - pf.BUMP_BUFFER_
                          ELSE deparr_time0
        ss == StopState(deparr_time, MODE_TRANSFER, 1, current_label_stop.stop_id_,
                        0 - 1, 0 - 1, transfer_time, link_cost, cost, label_iteration,
                        loc.latest_dep_earliest_arr)
    IN  IF bumped /\ deparr_time0 - pf.TIME_WINDOW_ > latest_time
        THEN \* we can't come in time
             updateStopStatesForTransfersLinks(pf, ps, S, label_iteration, current_label_stop,
                                               loc, Tail(xfer_stops))
        ELSE updateStopStatesForTransfersLinks(pf, ps,
                 addStopState(pf, ps, xfer_stop_id, ss, S),
                 label_iteration, current_label_stop, loc, Tail(xfer_stops))

\* updateStopStatesForTransfers walking on from a stop reached by a transfer
updateStopStatesForTransfers_afterTransfer(pf, ps, S, label_iteration, current_label_stop) ==
    LET current_stop_state == S.stop_states[current_label_stop.stop_id_]
        current_mode  == current_stop_state[1].deparr_mode_
        current_trip  == current_stop_state[1].trip_id_
        nonwalk_label == IF ps.hyperpath_ THEN calculateNonwalkLabel(current_stop_state)
                         ELSE CostOf(0)
        latest_dep_earliest_arr ==
            IF ps.hyperpath_
            THEN S.hyperpath_ss[current_label_stop.stop_id_].latest_dep_earliest_arr_
            ELSE current_stop_state[1].deparr_time_
        transfer_links == IF ps.outbound_ THEN pf.transfer_links_d_o_
                          ELSE pf.transfer_links_o_d_
        ucm == UserClassMode(ps.user_class_, MODE_TRANSFER, "transfer")
    IN  IF current_mode = MODE_EGRESS THEN S
        ELSE IF current_mode = MODE_ACCESS THEN S
        ELSE IF ps.hyperpath_ /\ nonwalk_label = CostOf(MAX_COST) THEN S
        ELSE IF current_label_stop.stop_id_ \notin DOMAIN transfer_links THEN S
        ELSE IF ucm \notin DOMAIN pf.weight_lookup_ THEN S
        ELSE IF pf.transfer_supply_mode_ \notin DOMAIN pf.weight_lookup_[ucm] THEN S
        ELSE updateStopStatesForTransfersLinks(pf, ps, S, label_iteration, current_label_stop,
                 [latest_dep_earliest_arr |-> latest_dep_earliest_arr,
                  nonwalk_label   |-> nonwalk_label,
                  current_trip    |-> current_trip,
                  transfer_weights |-> pf.weight_lookup_[ucm][pf.transfer_supply_mode_],
                  transfer_map    |-> transfer_links[current_label_stop.stop_id_]],
                 SortedSeq(DOMAIN transfer_links[current_label_stop.stop_id_]))

\* void PathFinder::updateStopStatesForTransfers
updateStopStatesForTransfers(pf, ps, S, label_iteration, current_label_stop) ==
    LET current_stop_state == S.stop_states[current_label_stop.stop_id_]
        current_mode  == current_stop_state[1].deparr_mode_
        current_trip  == current_stop_state[1].trip_id_
        nonwalk_label == IF ps.hyperpath_ THEN calculateNonwalkLabel(current_stop_state)
                         ELSE CostOf(0)
        latest_dep_earliest_arr ==
            IF ps.hyperpath_
            THEN S.hyperpath_ss[current_label_stop.stop_id_].latest_dep_earliest_arr_
            ELSE current_stop_state[1].deparr_time_
        transfer_links == IF ps.outbound_ THEN pf.transfer_links_d_o_
                          ELSE pf.transfer_links_o_d_
        ucm == UserClassMode(ps.user_class_, MODE_TRANSFER, "transfer")
    IN  IF current_mode = MODE_EGRESS THEN S
        ELSE IF current_mode = MODE_ACCESS THEN S
        ELSE IF ~ps.hyperpath_ /\ current_mode = MODE_TRANSFER THEN S
        ELSE IF ps.hyperpath_ /\ nonwalk_label = CostOf(MAX_COST) THEN S
        ELSE IF current_label_stop.stop_id_ \notin DOMAIN transfer_links THEN S
        ELSE IF ucm \notin DOMAIN pf.weight_lookup_ THEN S
        ELSE IF pf.transfer_supply_mode_ \notin DOMAIN pf.weight_lookup_[ucm] THEN S
        ELSE updateStopStatesForTransfersLinks(pf, ps, S, label_iteration, current_label_stop,
                 [latest_dep_earliest_arr |-> latest_dep_earliest_arr,
                  nonwalk_label   |-> nonwalk_label,
                  current_trip    |-> current_trip,
                  transfer_weights |-> pf.weight_lookup_[ucm][pf.transfer_supply_mode_],
                  transfer_map    |-> transfer_links[current_label_stop.stop_id_]],
                 SortedSeq(DOMAIN transfer_links[current_label_stop.stop_id_]))

-----------------------------------------------------------------------------
(* part_000: the relaxation of trips *)

\* a relaxation that boards and alights at seeded stops too
boardAlightIsSeeded_never(ps, possible_states) == FALSE

\* "hyperpath: potential successor/predessor can't be access or egress":
\* the first state of the board/alight stop is an ACCESS or EGRESS state
boardAlightIsSeeded(ps, possible_states) ==
    /\ ps.hyperpath_
    /\ Len(possible_states) > 0
    /\ possible_states[1].deparr_mode_ \in {MODE_ACCESS, MODE_EGRESS}

\* the board/alight time taken as it stands in the schedule
crossedMidnight_ignored(ps, arrdep_time, deparr_time0) == deparr_time0

\* "the schedule crossed midnight": the board (outbound) or alight (inbound)
\* time of the trip, moved by a day when it lies on the wrong side of the
\* trip's time at the current stop
crossedMidnight(ps, arrdep_time, deparr_time0) ==
    IF ps.outbound_ /\ arrdep_time < deparr_time0 THEN deparr_time0 - 24*60
    ELSE IF ~ps.outbound_ /\ deparr_time0 < arrdep_time THEN deparr_time0 + 24*60
    ELSE deparr_time0

\* the deterministic link cost of a trip without the wait for it
deterministicLinkCost_noWait(in_vehicle_time, wait_time) == in_vehicle_time

\* deterministic: label = cost = total time, just additive
deterministicLinkCost(in_vehicle_time, wait_time) == in_vehicle_time + wait_time

\* the loop of updateStopStatesForTrips over the stops of one relevant trip;
\* it is the TripStopTime of the trip at the current stop
RECURSIVE updateStopStatesForTripsStops(_, _, _, _, _, _, _, _, _)
updateStopStatesForTripsStops(pf, ps, S, label_iteration, current_label_stop, loc, it, seq_num, end_seq) ==
    IF seq_num > end_seq THEN S
    ELSE
    LET current_stop_state == S.stop_states[current_label_stop.stop_id_]
        possible_board_alight == pf.trip_stop_times_[it.trip_id_][seq_num]
        board_alight_stop == possible_board_alight.stop_id_
        possible_states == StatesAt(S.stop_states, board_alight_stop)
        skip == boardAlightIsSeeded(ps, possible_states)
        trip_info   == pf.trip_info_[it.trip_id_]
        arrdep_time == IF ps.outbound_ THEN it.arrive_time_ ELSE it.depart_time_
        wait_time   == (loc.latest_dep_earliest_arr - arrdep_time) * dir_factor(ps)
        deparr_time0 == IF ps.outbound_ THEN possible_board_alight.depart_time_
                        ELSE possible_board_alight.arrive_time_
        \* the schedule crossed midnight
        deparr_time == crossedMidnight(ps, arrdep_time, deparr_time0)
        in_vehicle_time == (arrdep_time - deparr_time) * dir_factor(ps)
        at_end_link == \/ ( ps.outbound_ /\ loc.current_mode = MODE_EGRESS)
                       \/ (~ps.outbound_ /\ loc.current_mode = MODE_ACCESS)
        delay_ucm == UserClassMode(ps.user_class_,
                                   IF ps.outbound_ THEN MODE_EGRESS ELSE MODE_ACCESS,
                                   IF ps.outbound_ THEN ps.egress_mode_ ELSE ps.access_mode_)
        xfer_ucm  == UserClassMode(ps.user_class_, MODE_TRANSFER, "transfer")
        delay_cost ==
            IF delay_ucm \in DOMAIN pf.weight_lookup_
               /\ loc.current_trip_id \in DOMAIN pf.weight_lookup_[delay_ucm]
            THEN tallyLinkCost(pf.weight_lookup_[delay_ucm][loc.current_trip_id],
                               [time_min |-> 0, preferred_delay_min |-> wait_time])
            ELSE 0
        xfer_cost ==
            IF xfer_ucm \in DOMAIN pf.weight_lookup_
               /\ pf.transfer_supply_mode_ \in DOMAIN pf.weight_lookup_[xfer_ucm]
            THEN tallyLinkCost(pf.weight_lookup_[xfer_ucm][pf.transfer_supply_mode_],
                               [transfer_penalty |-> 1, walk_time_min |-> 0])
            ELSE 0
        link_attr ==
            SetAttr(SetAttr(SetAttr(trip_info.trip_attr_,
                "in_vehicle_time_min", in_vehicle_time),
                "wait_time_min", IF at_end_link THEN 0 ELSE wait_time),
                "transfer_penalty",
                IF loc.current_mode \in {MODE_ACCESS, MODE_EGRESS} THEN 0 ELSE 1)
        hyper_link_cost ==
            (IF isTrip(loc.current_mode) THEN xfer_cost
             ELSE IF at_end_link THEN delay_cost ELSE 0)
            + tallyLinkCost(loc.named_weights[trip_info.supply_mode_num_], link_attr)
        link_cost == IF ps.hyperpath_ THEN hyper_link_cost
                     ELSE deterministicLinkCost(in_vehicle_time, wait_time)
        cost == IF ps.hyperpath_
                THEN CostAdd(S.hyperpath_ss[current_label_stop.stop_id_].hyperpath_cost_, link_cost)
                ELSE CostAdd(current_stop_state[1].cost_, link_cost)
        ss == StopState(deparr_time, MODE_TRANSIT, possible_board_alight.trip_id_,
                        current_label_stop.stop_id_, possible_board_alight.seq_, it.seq_,
                        in_vehicle_time + wait_time, link_cost, cost, label_iteration,
                        arrdep_time)
    IN  updateStopStatesForTripsStops(pf, ps,
            IF skip THEN S ELSE addStopState(pf, ps, board_alight_stop, ss, S),
            label_iteration, current_label_stop, loc, it, seq_num + 1, end_seq)

\* the loop of updateStopStatesForTrips over the relevant trips
RECURSIVE updateStopStatesForTripsLoop(_, _, _, _, _, _, _)
updateStopStatesForTripsLoop(pf, ps, S, label_iteration, current_label_stop, loc, relevant_trips) ==
    IF relevant_trips = <<>> THEN S
    ELSE
    LET current_stop_state == S.stop_states[current_label_stop.stop_id_]
        it          == Head(relevant_trips)
        trip_info   == pf.trip_info_[it.trip_id_]
        arrdep_time == IF ps.outbound_ THEN it.arrive_time_ ELSE it.depart_time_
        sets_boundary == /\ ps.hyperpath_
                         /\ S.hyperpath_ss[current_label_stop.stop_id_].lder_trip_id_ = it.trip_id_
        check_for_bump_wait ==
            IF ps.outbound_
            THEN TripStop(current_stop_state[1].trip_id_, current_stop_state[1].seq_,
                          current_label_stop.stop_id_)
            ELSE TripStop(it.trip_id_, it.seq_, current_label_stop.stop_id_)
        arrive_time == IF ps.outbound_ THEN arrdep_time ELSE current_stop_state[1].deparr_time_
        bumped == /\ ~ps.hyperpath_
                  /\ check_for_bump_wait \in DOMAIN pf.bump_wait_
                  /\ arrive_time * 100 + 1 >= pf.bump_wait_[check_for_bump_wait] * 100
                  /\ current_stop_state[1].trip_id_ # it.trip_id_
        start_seq == IF ps.outbound_ THEN 1 ELSE it.seq_ + 1
        end_seq   == IF ps.outbound_ THEN it.seq_ - 1
                     ELSE Len(pf.trip_stop_times_[it.trip_id_])
    IN  updateStopStatesForTripsLoop(pf, ps,
            IF \/ sets_boundary
               \/ trip_info.supply_mode_num_ \notin DOMAIN loc.named_weights
               \/ bumped
            THEN S
            ELSE updateStopStatesForTripsStops(pf, ps, S, label_iteration, current_label_stop,
                                               loc, it, start_seq, end_seq),
            label_iteration, current_label_stop, loc, Tail(relevant_trips))

\* void PathFinder::updateStopStatesForTrips
updateStopStatesForTrips(pf, ps, S, label_iteration, current_label_stop) ==
    LET ucm == UserClassMode(ps.user_class_, MODE_TRANSIT, ps.transit_mode_)
        current_stop_state == S.stop_states[current_label_stop.stop_id_]
        latest_dep_earliest_arr ==
            IF ps.hyperpath_
            THEN S.hyperpath_ss[current_label_stop.stop_id_].latest_dep_earliest_arr_
            ELSE current_stop_state[1].deparr_time_
    IN  IF ucm \notin DOMAIN pf.weight_lookup_ THEN S
        ELSE updateStopStatesForTripsLoop(pf, ps, S, label_iteration, current_label_stop,
                 [current_mode    |-> current_stop_state[1].deparr_mode_,
                  current_trip_id |-> current_stop_state[1].trip_id_,
                  latest_dep_earliest_arr |-> latest_dep_earliest_arr,
                  named_weights   |-> pf.weight_lookup_[ucm]],
                 getTripsWithinTime(pf, current_label_stop.stop_id_, ps.outbound_,
                                    latest_dep_earliest_arr))

-----------------------------------------------------------------------------
(* part_000: finalizeTazState *)

\* the smallest (outbound) or largest (inbound) deparr_time_ among states
RECURSIVE EarliestDepLatestArr(_, _, _)
EarliestDepLatestArr(outbound, states, acc) ==
    IF states = <<>> THEN acc
    ELSE LET t == Head(states).deparr_time_
         IN  EarliestDepLatestArr(outbound, Tail(states),
                 IF outbound THEN (IF t < acc THEN t ELSE acc)
                 ELSE (IF t > acc THEN t ELSE acc))

\* finalizeTazState letting the first leg be a walk
finalizeTazSkips_walkFirst(ps, current_stop_state, bump_too_late) ==
    IF ps.hyperpath_
    THEN calculateNonwalkLabel(current_stop_state) = CostOf(MAX_COST)
    ELSE bump_too_late

\* finalizeTazState: the 'continue' tests on a stop of the end TAZ
finalizeTazSkips(ps, current_stop_state, bump_too_late) ==
    IF ps.hyperpath_
    THEN \* the only way to reach this stop is via transfer
         calculateNonwalkLabel(current_stop_state) = CostOf(MAX_COST)
    ELSE \* first leg has to be a trip
         \/ current_stop_state[1].deparr_mode_ \in {MODE_TRANSFER, MODE_EGRESS, MODE_ACCESS}
         \/ bump_too_late

\* the loop of finalizeTazState over the links of the end TAZ
RECURSIVE finalizeTazStateLinks(_, _, _, _, _)
finalizeTazStateLinks(pf, ps, links, label_iteration, S) ==
    IF links = <<>> THEN S
    ELSE
    LET end_taz_id  == IF ps.outbound_ THEN ps.origin_taz_id_ ELSE ps.destination_taz_id_
        ucm         == UserClassMode(ps.user_class_,
                                     IF ps.outbound_ THEN MODE_ACCESS ELSE MODE_EGRESS,
                                     IF ps.outbound_ THEN ps.access_mode_ ELSE ps.egress_mode_)
        supply_mode_num == Head(links)[1]
        stop_id     == Head(links)[2]
        link_attr   == SetAttr(pf.taz_access_links_[end_taz_id][supply_mode_num][stop_id],
                               "preferred_delay_min", 0)
        access_time == link_attr["time_min"]
        current_stop_state == S.stop_states[stop_id]
        earliest_dep_latest_arr ==
            IF ps.hyperpath_
            THEN EarliestDepLatestArr(ps.outbound_, current_stop_state,
                                      current_stop_state[1].deparr_time_)
            ELSE current_stop_state[1].deparr_time_
        nonwalk_label == calculateNonwalkLabel(current_stop_state)
        deparr_time0 == earliest_dep_latest_arr - (access_time * dir_factor(ps))
        ts          == TripStop(current_stop_state[1].deparr_mode_, current_stop_state[1].seq_,
                                stop_id)
        bumped      == ~ps.hyperpath_ /\ ps.outbound_ /\ ts \in DOMAIN pf.bump_wait_
        latest_time == pf.bump_wait_[ts]
        link_cost   == IF ps.hyperpath_
                       THEN tallyLinkCost(pf.weight_lookup_[ucm][supply_mode_num], link_attr)
                       ELSE access_time
        cost0       == IF ps.hyperpath_ THEN CostAdd(nonwalk_label, link_cost)
                       ELSE CostAdd(current_stop_state[1].cost_, link_cost)
        cost        == IF bumped
                       THEN CostAdd(cost0, (current_stop_state[1].deparr_time_ - latest_time)
                                           + pf.BUMP_BUFFER_)
                       ELSE cost0
        deparr_time == IF bumped THEN latest_time - access_time - pf.BUMP_BUFFER_
                       ELSE deparr_time0
        skip == finalizeTazSkips(ps, current_stop_state,
                                 bumped /\ deparr_time0 - pf.TIME_WINDOW_ > latest_time)
        ts_state == StopState(deparr_time,
                              IF ps.outbound_ THEN MODE_ACCESS ELSE MODE_EGRESS,
                              supply_mode_num, stop_id, 0 - 1, 0 - 1,
                              access_time, link_cost, cost, label_iteration,
                              earliest_dep_latest_arr)
    IN  IF stop_id \notin DOMAIN S.stop_states
        THEN finalizeTazStateLinks(pf, ps, Tail(links), label_iteration, S)
        ELSE finalizeTazStateLinks(pf, ps, Tail(links), label_iteration,
                 IF skip THEN S ELSE addStopState(pf, ps, end_taz_id, ts_state, S))

\* finalizeTazState adding the end TAZ's states but no HyperpathState for it
finalizeTazState_directPush(pf, ps, S, label_iteration) ==
    LET end_taz_id == IF ps.outbound_ THEN ps.origin_taz_id_ ELSE ps.destination_taz_id_
        ucm        == UserClassMode(ps.user_class_,
                                    IF ps.outbound_ THEN MODE_ACCESS ELSE MODE_EGRESS,
                                    IF ps.outbound_ THEN ps.access_mode_ ELSE ps.egress_mode_)
        S1 == [S EXCEPT !.stop_states = MapPut(@, end_taz_id, StatesAt(@, end_taz_id))]
        F  == IF end_taz_id \notin DOMAIN pf.taz_access_links_ THEN S1
              ELSE IF ucm \notin DOMAIN pf.weight_lookup_ THEN S1
              ELSE finalizeTazStateLinks(pf, ps,
                       AccessLinkSeq(pf.taz_access_links_[end_taz_id],
                                     SortedSeq(DOMAIN pf.weight_lookup_[ucm])),
                       label_iteration, S1)
    IN  [F EXCEPT !.hyperpath_ss = S.hyperpath_ss]

\* bool PathFinder::finalizeTazState
finalizeTazState(pf, ps, S, label_iteration) ==
    LET end_taz_id == IF ps.outbound_ THEN ps.origin_taz_id_ ELSE ps.destination_taz_id_
        ucm        == UserClassMode(ps.user_class_,
                                    IF ps.outbound_ THEN MODE_ACCESS ELSE MODE_EGRESS,
                                    IF ps.outbound_ THEN ps.access_mode_ ELSE ps.egress_mode_)
        \* instantiate this
        S1 == [S EXCEPT !.stop_states = MapPut(@, end_taz_id, StatesAt(@, end_taz_id))]
    IN  IF end_taz_id \notin DOMAIN pf.taz_access_links_ THEN S1
        ELSE IF ucm \notin DOMAIN pf.weight_lookup_ THEN S1
        ELSE finalizeTazStateLinks(pf, ps,
                 AccessLinkSeq(pf.taz_access_links_[end_taz_id],
                               SortedSeq(DOMAIN pf.weight_lookup_[ucm])),
                 label_iteration, S1)

-----------------------------------------------------------------------------
(* part_000: calculatePathCost and the deterministic branch of getFoundPath *)

\* path.insert(path.begin() + (at - 1), elem)
PathInsert(p, at, elem) ==
    [i \in 1..(Len(p) + 1) |-> IF i < at THEN p[i] ELSE IF i = at THEN elem ELSE p[i - 1]]

\* the loop of calculatePathCost; index and end_ind count from 1
RECURSIVE calculatePathCostLoop(_, _, _, _, _, _, _)
calculatePathCostLoop(pf, ps, p, cost_sum, first_trip, index, end_ind) ==
    IF index = end_ind THEN [path |-> p, cost_ |-> cost_sum]
    ELSE
    LET inc        == IF ps.outbound_ THEN 1 ELSE 0 - 1
        stop_id    == p[index].first
        stop_state == p[index].second
        \* access
        orig_departure_time == IF ps.outbound_ THEN stop_state.deparr_time_
                               ELSE stop_state.deparr_time_ - stop_state.link_time_
        access_delay == IF ps.outbound_ THEN 0 ELSE orig_departure_time - ps.preferred_time_
        access_stop  == IF ps.outbound_ THEN stop_state.stop_succpred_ ELSE stop_id
        access_cost  ==
            tallyLinkCost(
                pf.weight_lookup_[UserClassMode(ps.user_class_, MODE_ACCESS, ps.access_mode_)]
                                 [stop_state.trip_id_],
                SetAttr(pf.taz_access_links_[ps.origin_taz_id_][stop_state.trip_id_][access_stop],
                        "preferred_delay_min", access_delay))
        \* egress
        dest_arrival_time == IF ps.outbound_ THEN stop_state.deparr_time_ + stop_state.link_time_
                             ELSE stop_state.deparr_time_
        egress_delay == IF ps.outbound_ THEN ps.preferred_time_ - dest_arrival_time ELSE 0
        egress_stop  == IF ps.outbound_ THEN stop_id ELSE stop_state.stop_succpred_
        egress_cost  ==
            tallyLinkCost(
                pf.weight_lookup_[UserClassMode(ps.user_class_, MODE_EGRESS, ps.egress_mode_)]
                                 [stop_state.trip_id_],
                SetAttr(pf.taz_access_links_[ps.destination_taz_id_][stop_state.trip_id_][egress_stop],
                        "preferred_delay_min", egress_delay))
        \* transfer
        orig_stop == IF ps.outbound_ THEN stop_id ELSE stop_state.stop_succpred_
        dest_stop == IF ps.outbound_ THEN stop_state.stop_succpred_ ELSE stop_id
        transfer_cost ==
            tallyLinkCost(
                pf.weight_lookup_[UserClassMode(ps.user_class_, MODE_TRANSFER, "transfer")]
                                 [pf.transfer_supply_mode_],
                SetAttr(IF orig_stop # dest_stop THEN pf.transfer_links_o_d_[orig_stop][dest_stop]
                        ELSE [walk_time_min |-> 0],
                        "transfer_penalty", 1))
        \* trip
        trip_ivt_min == (stop_state.arrdep_time_ - stop_state.deparr_time_) * dir_factor(ps)
        wait_min     == stop_state.link_time_ - trip_ivt_min
        trip_info    == pf.trip_info_[stop_state.trip_id_]
        trip_cost    ==
            tallyLinkCost(
                pf.weight_lookup_[UserClassMode(ps.user_class_, MODE_TRANSIT, ps.transit_mode_)]
                                 [trip_info.supply_mode_num_],
                SetAttr(SetAttr(SetAttr(trip_info.trip_attr_,
                    "in_vehicle_time_min", trip_ivt_min),
                    "wait_time_min", wait_min),
                    "transfer_penalty", IF first_trip THEN 0 ELSE 1))
        link_cost == IF stop_state.deparr_mode_ = MODE_ACCESS THEN access_cost
                     ELSE IF stop_state.deparr_mode_ = MODE_EGRESS THEN egress_cost
                     ELSE IF stop_state.deparr_mode_ = MODE_TRANSFER THEN transfer_cost
                     ELSE trip_cost
        is_trip   == stop_state.deparr_mode_ \notin {MODE_ACCESS, MODE_EGRESS, MODE_TRANSFER}
        p1        == [p EXCEPT ![index].second.cost_ = CostOf(link_cost)]
        \* if the next link is a trip, insert a transfer link
        insert    == is_trip /\ isTrip(p[index + inc].second.deparr_mode_)
        xfer_stop_id == IF ps.outbound_ THEN stop_state.stop_succpred_ ELSE stop_id
        xfer_time == IF ps.outbound_ THEN stop_state.arrdep_time_ ELSE stop_state.deparr_time_
        xfer_state == StopState(xfer_time, MODE_TRANSFER, pf.transfer_supply_mode_,
                                xfer_stop_id, 0 - 1, 0 - 1, 0, 0, CostOf(link_cost), 0 - 1,
                                xfer_time)
    IN  IF ~insert
        THEN calculatePathCostLoop(pf, ps, p1, cost_sum + link_cost,
                                   first_trip /\ ~is_trip, index + inc, end_ind)
        ELSE IF ps.outbound_
        THEN \* going forward so insert after index, before index+1
             calculatePathCostLoop(pf, ps,
                 PathInsert(p1, index + 1, [first |-> xfer_stop_id, second |-> xfer_state]),
                 cost_sum + link_cost, FALSE, index + 1, end_ind + 1)
        ELSE \* going backward so insert before index
             calculatePathCostLoop(pf, ps,
                 PathInsert(p1, index, [first |-> stop_id, second |-> xfer_state]),
                 cost_sum + link_cost, FALSE, index, end_ind)

\* calculatePathCost without "path_info.cost_ = 0" before the loop
calculatePathCost_accumulates(pf, ps, p, pi) ==
    IF Len(p) = 0 THEN [path |-> p, path_info |-> pi]
    ELSE LET r == calculatePathCostLoop(pf, ps, p, pi.cost_, TRUE,
                      IF ps.outbound_ THEN 1 ELSE Len(p),
                      IF ps.outbound_ THEN Len(p) + 1 ELSE 0)
         IN  [path |-> r.path, path_info |-> [pi EXCEPT !.cost_ = r.cost_]]

\* void PathFinder::calculatePathCost
calculatePathCost(pf, ps, p, pi) ==
    IF Len(p) = 0 THEN [path |-> p, path_info |-> pi]
    ELSE LET r == calculatePathCostLoop(pf, ps, p, 0, TRUE,
                      IF ps.outbound_ THEN 1 ELSE Len(p),
                      IF ps.outbound_ THEN Len(p) + 1 ELSE 0)
         IN  [path |-> r.path, path_info |-> [pi EXCEPT !.cost_ = r.cost_]]


\* getFoundPath leaving the times of the links as labelled
getFoundPathFixTimes_asLabelled(ps, p, ss) == p

\* one round of the while loop of getFoundPath: the times of the link just
\* appended (curr) and of the link before it (prev) are made consistent
getFoundPathFixTimes(ps, p, ss) ==
    LET curr_index == Len(p)
        prev_index == curr_index - 1
        prev == p[prev_index].second
        curr == p[curr_index].second
    IN
    IF ps.outbound_ THEN
        IF prev.deparr_mode_ = MODE_ACCESS THEN
            \* Leave origin as late as possible
            [p EXCEPT ![prev_index].second.arrdep_time_ = ss.deparr_time_,
                      ![prev_index].second.deparr_time_ = ss.deparr_time_ - prev.link_time_,
                      ![curr_index].second.link_time_   = curr.arrdep_time_ - curr.deparr_time_]
        ELSE IF isTrip(curr.deparr_mode_) THEN
            [p EXCEPT ![curr_index].second.link_time_ = curr.arrdep_time_ - prev.arrdep_time_]
        ELSE IF curr.deparr_mode_ = MODE_TRANSFER \/ ss.deparr_mode_ = MODE_EGRESS THEN
            [p EXCEPT ![curr_index].second.deparr_time_ = prev.arrdep_time_,
                      ![curr_index].second.arrdep_time_ = prev.arrdep_time_ + curr.link_time_]
        ELSE p
    ELSE
        LET p1 ==
              IF curr.deparr_mode_ = MODE_ACCESS THEN
                  [p EXCEPT ![curr_index].second.deparr_time_ = prev.arrdep_time_,
                            ![curr_index].second.arrdep_time_ = prev.arrdep_time_ - curr.link_time_,
                            ![prev_index].second.link_time_   = prev.deparr_time_ - prev.arrdep_time_]
              ELSE IF isTrip(curr.deparr_mode_) THEN
                  IF prev.deparr_mode_ = MODE_TRANSFER THEN
                      \* move transfer time so we do it right after arriving
                      [p EXCEPT ![prev_index].second.arrdep_time_ = curr.deparr_time_,
                                ![prev_index].second.deparr_time_ = curr.deparr_time_ + prev.link_time_,
                                ![prev_index - 1].second.link_time_ =
                                    p[prev_index - 1].second.deparr_time_
                                    - (curr.deparr_time_ + prev.link_time_)]
                  ELSE IF isTrip(prev.deparr_mode_) THEN
                      [p EXCEPT ![prev_index].second.link_time_ =
                                    prev.deparr_time_ - curr.deparr_time_]
                  ELSE p
              ELSE p
        IN  \* Egress: don't wait, just walk
            IF p1[prev_index].second.deparr_mode_ = MODE_EGRESS THEN
                [p1 EXCEPT ![prev_index].second.arrdep_time_ = ss.deparr_time_,
                           ![prev_index].second.deparr_time_ =
                               ss.deparr_time_ + p1[prev_index].second.link_time_]
            ELSE p1

\* the while loop of getFoundPath ending at the first transit link
RECURSIVE getFoundPathLoop_endsAtTrip(_, _, _, _, _)
getFoundPathLoop_endsAtTrip(ps, ss_map, p, ss, rounds) ==
    LET stop_id == ss.stop_succpred_
        next_ss == ss_map[stop_id][1]
    IN  IF isTrip(ss.deparr_mode_) THEN [path |-> p, ends |-> TRUE]
        ELSE IF rounds = 0 THEN [path |-> p, ends |-> FALSE]
        ELSE getFoundPathLoop_endsAtTrip(ps, ss_map,
                 getFoundPathFixTimes(ps, Append(p, [first |-> stop_id, second |-> next_ss]),
                                      next_ss),
                 next_ss, rounds - 1)

\* the while loop of getFoundPath; rounds is the number of rounds still
\* followed before the loop is taken not to end
RECURSIVE getFoundPathLoop(_, _, _, _, _)
getFoundPathLoop(ps, ss_map, p, ss, rounds) ==
    LET final_state_type == IF ps.outbound_ THEN MODE_EGRESS ELSE MODE_ACCESS
        stop_id == ss.stop_succpred_
        next_ss == ss_map[stop_id][1]
    IN  IF ss.deparr_mode_ = final_state_type THEN [path |-> p, ends |-> TRUE]
        ELSE IF rounds = 0 THEN [path |-> p, ends |-> FALSE]
        ELSE getFoundPathLoop(ps, ss_map,
                 getFoundPathFixTimes(ps, Append(p, [first |-> stop_id, second |-> next_ss]),
                                      next_ss),
                 next_ss, rounds - 1)

\* the deterministic branch of getFoundPath (the end TAZ has states)
getFoundPathDeterministic(pf, ps, ss_map, p, pi, rand_state) ==
    LET end_taz_id == IF ps.outbound_ THEN ps.origin_taz_id_ ELSE ps.destination_taz_id_
        ss         == ss_map[end_taz_id][1]
        followed   == getFoundPathLoop(ps, ss_map, Append(p, [first |-> end_taz_id, second |-> ss]),
                                       ss, Cardinality(DOMAIN ss_map))
        costed     == calculatePathCost(pf, ps, followed.path, pi)
    IN  IF ~followed.ends
        THEN [path |-> followed.path, path_info |-> pi, ends |-> FALSE, undefined |-> FALSE,
              rand_next |-> rand_state]
        ELSE [path |-> costed.path, path_info |-> costed.path_info, ends |-> TRUE,
              undefined |-> FALSE, rand_next |-> rand_state]

-----------------------------------------------------------------------------
(* part_000: hyperpath path sampling.  rand() and srand() belong to the C   *)
(* library: a linear congruential generator stands for them, so that the    *)
(* numbers drawn are a function of the seed and of the number of draws.     *)
(* Probabilities are ratios of integers, and static_cast<int>(RAND_MAX*p)   *)
(* is taken on the exact ratio.                                              *)

RAND_MAX == 32767

\* void srand(unsigned seed): the generator state after seeding
srand(seed) == seed % 65536

\* int rand(): the state after the draw
rand(state) == (state * 25173 + 13849) % 65536

\* int rand(): the number drawn, in 0..RAND_MAX, given the state after the draw
randValue(state_after) == state_after \div 2

\* struct ProbabilityStop { probability_, prob_i_, stop_id_, index_ }
ProbabilityStop(probability, prob_i, stop_id, index) ==
    [probability_ |-> probability, prob_i_ |-> prob_i, stop_id_ |-> stop_id, index_ |-> index]

\* a probability as the ratio num/den
Ratio(num, den) == [num |-> num, den |-> den]

\* struct PathInfo
PathInfo(count, cost, capacity_problem, probability, prob_i) ==
    [count_ |-> count, cost_ |-> cost, capacity_problem_ |-> capacity_problem,
     probability_ |-> probability, prob_i_ |-> prob_i]

\* quotient and remainder of (n * num) by den, by halving n so that no
\* intermediate product leaves the 32-bit integers
RECURSIVE MulDivMod(_, _, _)
MulDivMod(n, num, den) ==
    IF n = 0 THEN [q |-> 0, r |-> 0]
    ELSE LET half == MulDivMod(n \div 2, num, den)
             rest == 2 * half.r + (n % 2) * num
         IN  [q |-> 2 * half.q + rest \div den, r |-> rest % den]

\* static_cast<int>(RAND_MAX*probability)
IntegerizeProbability(probability) == MulDivMod(RAND_MAX, probability.num, probability.den).q

\* the index chooseState returns for the number drawn, or 0 when the loop
\* ends without returning
chooseStateIndex(prob_stops, random_num) ==
    LET hits == {ind \in 1..Len(prob_stops) :
                    /\ prob_stops[ind].prob_i_ # 0
                    /\ random_num <= prob_stops[ind].prob_i_}
    IN  IF hits = {} THEN 0
        ELSE prob_stops[CHOOSE ind \in hits : \A o \in hits : ind <= o].index_

\* size_t PathFinder::chooseState: the chosen index (from 1), the generator
\* state after the draw, and whether the call ran into undefined behaviour
\* (back() of an empty vector, a modulus of zero, no return value)
chooseState(prob_stops, rand_state) ==
    LET drawn == rand(rand_state)
        max_prob_i == prob_stops[Len(prob_stops)].prob_i_
    IN  IF Len(prob_stops) = 0 \/ max_prob_i = 0
        THEN [index |-> 0, rand_next |-> drawn, undefined |-> TRUE]
        ELSE LET chosen == chooseStateIndex(prob_stops, randValue(drawn) % max_prob_i)
             IN  [index |-> chosen, rand_next |-> drawn, undefined |-> chosen = 0]

\* double PathFinder::getScheduledDeparture(trip_id, stop_id, sequence)
getScheduledDeparture(pf, trip_id, stop_id, sequence) ==
    IF trip_id \notin DOMAIN pf.trip_stop_times_ THEN 0 - 1
    ELSE LET stts == pf.trip_stop_times_[trip_id]
             hits == {i \in 1..Len(stts) :
                         /\ stts[i].stop_id_ = stop_id
                         /\ (sequence < 0 \/ sequence = stts[i].seq_)}
         IN  IF hits = {} THEN 0 - 1
             ELSE stts[CHOOSE i \in hits : \A o \in hits : i <= o].depart_time_

\* hyperpathGeneratePath: the access/egress cumulative probabilities of the
\* TAZ states from state_index on, appended to access_cum_prob
RECURSIVE accessCumProb(_, _, _, _)
accessCumProb(taz_state, taz_label, state_index, access_cum_prob) ==
    IF state_index > Len(taz_state) THEN access_cum_prob
    ELSE
    LET e == ExpPair(taz_state[state_index].cost_, taz_label)
        probability == Ratio(e[1], e[2])
        prob_i == IntegerizeProbability(probability)
        cost_cutoff == 1
        pb == ProbabilityStop(probability,
                  IF Len(access_cum_prob) = 0 THEN prob_i
                  ELSE access_cum_prob[Len(access_cum_prob)].prob_i_ + prob_i,
                  taz_state[state_index].stop_succpred_, state_index)
    IN  \* too small to consider
        IF prob_i < cost_cutoff
        THEN accessCumProb(taz_state, taz_label, state_index + 1, access_cum_prob)
        ELSE accessCumProb(taz_state, taz_label, state_index + 1, Append(access_cum_prob, pb))

\* a choice that looks at the modes and the trip but not at the times
stateIsCandidate_anyTime(ps, state, arrdep_time, prev_mode, prev_trip_id) ==
    /\ ~( ps.outbound_ /\ state.deparr_mode_ = MODE_ACCESS)
    /\ ~(~ps.outbound_ /\ state.deparr_mode_ = MODE_EGRESS)
    /\ ~( /\ ps.outbound_
          /\ state.deparr_mode_ \in {MODE_EGRESS, MODE_TRANSFER}
          /\ prev_mode \in {MODE_ACCESS, MODE_TRANSFER} )
    /\ ~( /\ ~ps.outbound_
          /\ state.deparr_mode_ \in {MODE_ACCESS, MODE_TRANSFER}
          /\ prev_mode \in {MODE_EGRESS, MODE_TRANSFER} )
    /\ ~(state.deparr_mode_ = MODE_TRANSIT /\ state.trip_id_ = prev_trip_id)

\* hyperpathGeneratePath: may the state be chosen at this point of the path
stateIsCandidate(ps, state, arrdep_time, prev_mode, prev_trip_id) ==
    \* no repeat of access/egress
    /\ ~( ps.outbound_ /\ state.deparr_mode_ = MODE_ACCESS)
    /\ ~(~ps.outbound_ /\ state.deparr_mode_ = MODE_EGRESS)
    \* no double walk
    /\ ~( /\ ps.outbound_
          /\ state.deparr_mode_ \in {MODE_EGRESS, MODE_TRANSFER}
          /\ prev_mode \in {MODE_ACCESS, MODE_TRANSFER} )
    /\ ~( /\ ~ps.outbound_
          /\ state.deparr_mode_ \in {MODE_ACCESS, MODE_TRANSFER}
          /\ prev_mode \in {MODE_EGRESS, MODE_TRANSFER} )
    \* don't double on the same trip ID
    /\ ~(state.deparr_mode_ = MODE_TRANSIT /\ state.trip_id_ = prev_trip_id)
    \* outbound: we cannot depart before we arrive
    /\ ~( ps.outbound_ /\ state.deparr_time_ < arrdep_time)
    \* inbound: we cannot arrive after we depart
    /\ ~(~ps.outbound_ /\ state.deparr_time_ > arrdep_time)

\* the largest k among the costs of a sequence of states
RECURSIVE maxCostK(_)
maxCostK(costs) ==
    IF Len(costs) = 1 THEN costs[1].k
    ELSE LET rest == maxCostK(Tail(costs))
         IN  IF costs[1].k > rest THEN costs[1].k ELSE rest

\* exp(-theta*cost) of each cost of a sequence, as integers over the common
\* denominator 2^maxCostK
expWeights(costs) ==
    [i \in 1..Len(costs) |-> costs[i].m * 2^(maxCostK(costs) - costs[i].k)]

RECURSIVE sumSeq(_)
sumSeq(ns) == IF ns = <<>> THEN 0 ELSE Head(ns) + sumSeq(Tail(ns))

\* hyperpathGeneratePath: the cumulative probabilities of the candidate
\* states (indexes into the stop's states), in their order
stopCumProb(states, candidates) ==
    LET weights == expWeights([i \in 1..Len(candidates) |-> states[candidates[i]].cost_])
        sum_exp == sumSeq(weights)
        prob_i(idx) == IntegerizeProbability(Ratio(weights[idx], sum_exp))
    IN  [idx \in 1..Len(candidates) |->
            ProbabilityStop(Ratio(weights[idx], sum_exp),
                            sumSeq([j \in 1..idx |-> prob_i(j)]),
                            states[candidates[idx]].stop_succpred_,
                            candidates[idx])]

\* hyperpathGeneratePath, "UPDATES to states": the path with the times of its
\* last links rectified for the choice of next_ss, and next_ss rectified
hyperpathFixTimes(pf, ps, p, next_ss, current_stop_id, arrdep_time, prev_mode) ==
    LET n    == Len(p)
        back == p[n].second
    IN
    IF ps.outbound_ THEN
        IF prev_mode = MODE_ACCESS THEN
            \* Leave origin as late as possible
            LET dep_time == getScheduledDeparture(pf, next_ss.trip_id_, current_stop_id,
                                                  next_ss.seq_)
            IN  [path |-> [p EXCEPT ![n].second.arrdep_time_ = dep_time,
                                    ![n].second.deparr_time_ = dep_time - p[1].second.link_time_],
                 next_ss |-> [next_ss EXCEPT !.link_time_ =
                                  next_ss.arrdep_time_ - next_ss.deparr_time_]]
        ELSE IF isTrip(next_ss.deparr_mode_) THEN
            \* link time is arrival time - previous arrival time
            [path |-> p,
             next_ss |-> [next_ss EXCEPT !.link_time_ = next_ss.arrdep_time_ - arrdep_time]]
        ELSE IF next_ss.deparr_mode_ \in {MODE_TRANSFER, MODE_EGRESS} THEN
            \* start transferring immediately; egress: don't wait, just walk
            [path |-> p,
             next_ss |-> [next_ss EXCEPT !.deparr_time_ = back.arrdep_time_,
                                         !.arrdep_time_ = back.arrdep_time_ + next_ss.link_time_]]
        ELSE [path |-> p, next_ss |-> next_ss]
    ELSE
        LET r1 ==
              IF next_ss.deparr_mode_ = MODE_ACCESS THEN
                  \* Leave origin as late as possible
                  LET dep_time == getScheduledDeparture(pf, back.trip_id_, current_stop_id,
                                                        back.seq_succpred_)
                  IN  [path |-> [p EXCEPT ![n].second.link_time_ =
                                              back.deparr_time_ - back.arrdep_time_],
                       next_ss |-> [next_ss EXCEPT !.deparr_time_ = dep_time,
                                                   !.arrdep_time_ = dep_time - next_ss.link_time_]]
              ELSE IF isTrip(next_ss.deparr_mode_) THEN
                  LET trip_ss == [next_ss EXCEPT !.link_time_ =
                                      next_ss.deparr_time_ - next_ss.arrdep_time_]
                  IN  IF prev_mode = MODE_TRANSFER THEN
                          \* move transfer time so we do it right after arriving,
                          \* give the wait time to the previous trip
                          [path |-> [p EXCEPT
                               ![n].second.arrdep_time_ = next_ss.deparr_time_,
                               ![n].second.deparr_time_ = next_ss.deparr_time_ + back.link_time_,
                               ![n - 1].second.link_time_ =
                                   p[n - 1].second.deparr_time_
                                   - (next_ss.deparr_time_ + back.link_time_)],
                           next_ss |-> trip_ss]
                      ELSE IF isTrip(prev_mode) THEN
                          \* zero-walk transfer: give the previous trip the wait time
                          [path |-> [p EXCEPT ![n].second.link_time_ =
                                                  back.deparr_time_ - next_ss.deparr_time_],
                           next_ss |-> trip_ss]
                      ELSE [path |-> p, next_ss |-> trip_ss]
              ELSE IF next_ss.deparr_mode_ = MODE_TRANSFER THEN
                  \* transfer as late as possible
                  [path |-> p,
                   next_ss |-> [next_ss EXCEPT
                                   !.deparr_time_ = back.arrdep_time_,
                                   !.arrdep_time_ = back.arrdep_time_ - next_ss.link_time_]]
              ELSE [path |-> p, next_ss |-> next_ss]
        IN  \* Egress: don't wait, just walk
            IF prev_mode = MODE_EGRESS THEN
                [r1 EXCEPT !.path[n].second.arrdep_time_ = r1.next_ss.deparr_time_,
                           !.path[n].second.deparr_time_ =
                               r1.next_ss.deparr_time_ + r1.path[n].second.link_time_]
            ELSE r1

\* the while (true) loop of hyperpathGeneratePath; rounds is the number of
\* rounds still followed before the loop is taken not to end
RECURSIVE hyperpathGeneratePathLoop(_, _, _, _, _, _, _, _, _, _)
hyperpathGeneratePathLoop(pf, ps, ss_map, p, current_stop_id, arrdep_time, prev_mode, prev_trip_id, rand_state, rounds) ==
    LET states     == StatesAt(ss_map, current_stop_id)
        candidates == SelectSeq([i \in 1..Len(states) |-> i],
                          LAMBDA i : stateIsCandidate(ps, states[i], arrdep_time,
                                                      prev_mode, prev_trip_id))
        sum_exp    == sumSeq(expWeights([i \in 1..Len(candidates) |->
                                               states[candidates[i]].cost_]))
        stop_cum_prob == stopCumProb(states, candidates)
        chosen     == chooseState(stop_cum_prob, rand_state)
        fixed      == hyperpathFixTimes(pf, ps, p, states[chosen.index], current_stop_id,
                                        arrdep_time, prev_mode)
        next_ss    == fixed.next_ss
        new_path   == Append(fixed.path, [first |-> current_stop_id, second |-> next_ss])
    IN  IF rounds = 0 THEN
            [found |-> FALSE, path |-> p, rand_next |-> rand_state,
             undefined |-> FALSE, ends |-> FALSE]
        \* dead end
        ELSE IF Len(candidates) = 0 \/ sum_exp = 0 THEN
            [found |-> FALSE, path |-> p, rand_next |-> rand_state,
             undefined |-> FALSE, ends |-> TRUE]
        ELSE IF chosen.undefined THEN
            [found |-> FALSE, path |-> p, rand_next |-> chosen.rand_next,
             undefined |-> TRUE, ends |-> TRUE]
        \* are we done?
        ELSE IF \/ ( ps.outbound_ /\ next_ss.deparr_mode_ = MODE_EGRESS)
                \/ (~ps.outbound_ /\ next_ss.deparr_mode_ = MODE_ACCESS) THEN
            [found |-> TRUE, path |-> new_path, rand_next |-> chosen.rand_next,
             undefined |-> FALSE, ends |-> TRUE]
        ELSE hyperpathGeneratePathLoop(pf, ps, ss_map, new_path, next_ss.stop_succpred_,
                 next_ss.arrdep_time_, next_ss.deparr_mode_, next_ss.trip_id_,
                 chosen.rand_next, rounds - 1)

\* bool PathFinder::hyperpathGeneratePath: whether a path was found, the
\* path, the generator state afterwards, whether undefined behaviour was
\* met and whether the call ends
hyperpathGeneratePath(pf, ps, ss_map, hss, rand_state) ==
    LET start_state_id == IF ps.outbound_ THEN ps.origin_taz_id_ ELSE ps.destination_taz_id_
        taz_state  == ss_map[start_state_id]
        taz_label  == hss[start_state_id].hyperpath_cost_
        access_cum_prob == accessCumProb(taz_state, taz_label, 1, <<>>)
        chosen     == chooseState(access_cum_prob, rand_state)
        ss         == taz_state[chosen.index]
    IN  IF chosen.undefined THEN
            [found |-> FALSE, path |-> <<>>, rand_next |-> chosen.rand_next,
             undefined |-> TRUE, ends |-> TRUE]
        ELSE hyperpathGeneratePathLoop(pf, ps, ss_map,
                 <<[first |-> start_state_id, second |-> ss]>>,
                 ss.stop_succpred_, ss.deparr_time_ + ss.link_time_ * dir_factor(ps),
                 ss.deparr_mode_, ss.trip_id_, chosen.rand_next,
                 Cardinality(DOMAIN ss_map) * 4)

\* the integer fields of a path's links, in order: what the PathSet's
\* comparison looks at
RECURSIVE PathKey(_)
PathKey(p) ==
    IF p = <<>> THEN <<>>
    ELSE << p[1].first, p[1].second.deparr_mode_, p[1].second.trip_id_,
            p[1].second.stop_succpred_, p[1].second.seq_, p[1].second.seq_succpred_ >>
         \o PathKey(Tail(p))

\* lexicographic a < b on sequences of integers, the shorter one first
RECURSIVE KeyLess(_, _)
KeyLess(a, b) ==
    IF Len(a) # Len(b) THEN Len(a) < Len(b)
    ELSE IF a = <<>> THEN FALSE
    ELSE IF Head(a) # Head(b) THEN Head(a) < Head(b)
    ELSE KeyLess(Tail(a), Tail(b))

\* struct PathCompare: the order of the keys of a PathSet
PathCompare(path1, path2) == KeyLess(PathKey(path1), PathKey(path2))

\* PathSet::operator[] assignment: paths[key] = info, on a PathSet kept as
\* the sequence of its (path, info) entries in key order
PathSetPut(paths, key, info) ==
    LET Before(e) == PathCompare(e.path, key)
        After(e)  == PathCompare(key, e.path)
        same      == SelectSeq(paths, LAMBDA e : ~Before(e) /\ ~After(e))
    IN  SelectSeq(paths, Before)
        \o <<[path |-> IF same = <<>> THEN key ELSE same[1].path, info |-> info]>>
        \o SelectSeq(paths, After)

\* a find that never finds the key
PathSetFind_never(paths, key) == 0

\* PathSet::find: the index of the entry equivalent to key, or 0
PathSetFind(paths, key) ==
    LET hits == {i \in 1..Len(paths) :
                    ~PathCompare(paths[i].path, key) /\ ~PathCompare(key, paths[i].path)}
    IN  IF hits = {} THEN 0 ELSE CHOOSE i \in hits : TRUE

\* Path PathFinder::choosePath: the index of the chosen entry (0 when the
\* loop ends without returning) and the generator state after the draw
choosePath(paths, max_prob_i, rand_state) ==
    LET drawn      == rand(rand_state)
        random_num == randValue(drawn) % max_prob_i
        hits       == {i \in 1..Len(paths) :
                          /\ paths[i].info.prob_i_ # 0
                          /\ random_num <= paths[i].info.prob_i_}
    IN  [index |-> IF hits = {} THEN 0 ELSE CHOOSE i \in hits : \A o \in hits : i <= o,
         rand_next |-> drawn]

\* the attempts loop keeping what a dead-ended attempt has built
RECURSIVE getFoundPathAttempts_keepsDeadEnds(_, _, _, _, _, _, _)
getFoundPathAttempts_keepsDeadEnds(pf, ps, ss_map, hss, attempts, paths, rand_state) ==
    IF attempts > pf.STOCH_PATHSET_SIZE_
    THEN [paths |-> paths, rand_next |-> rand_state, undefined |-> FALSE, ends |-> TRUE]
    ELSE
    LET generated == hyperpathGeneratePath(pf, ps, ss_map, hss, rand_state)
        at        == PathSetFind(paths, generated.path)
        paths1    == IF at # 0 THEN [paths EXCEPT ![at].info.count_ = @ + 1]
                     ELSE PathSetPut(paths, generated.path,
                                     PathInfo(1, 0, FALSE, Ratio(0, 1), 0))
    IN  IF generated.undefined \/ ~generated.ends
        THEN [paths |-> paths, rand_next |-> generated.rand_next,
              undefined |-> generated.undefined, ends |-> generated.ends]
        ELSE getFoundPathAttempts_keepsDeadEnds(pf, ps, ss_map, hss, attempts + 1, paths1,
                                                generated.rand_next)

\* getFoundPath, hyperpath: the attempts loop ("find a *set of Paths*")
RECURSIVE getFoundPathAttempts(_, _, _, _, _, _, _)
getFoundPathAttempts(pf, ps, ss_map, hss, attempts, paths, rand_state) ==
    IF attempts > pf.STOCH_PATHSET_SIZE_
    THEN [paths |-> paths, rand_next |-> rand_state, undefined |-> FALSE, ends |-> TRUE]
    ELSE
    LET generated == hyperpathGeneratePath(pf, ps, ss_map, hss, rand_state)
        at        == PathSetFind(paths, generated.path)
        paths1    == IF ~generated.found THEN paths
                     \* do we already have this?  if so, increment
                     ELSE IF at # 0 THEN [paths EXCEPT ![at].info.count_ = @ + 1]
                     ELSE PathSetPut(paths, generated.path,
                                     PathInfo(1, 0, FALSE, Ratio(0, 1), 0))
    IN  IF generated.undefined \/ ~generated.ends
        THEN [paths |-> paths, rand_next |-> generated.rand_next,
              undefined |-> generated.undefined, ends |-> generated.ends]
        ELSE getFoundPathAttempts(pf, ps, ss_map, hss, attempts + 1, paths1,
                                  generated.rand_next)

\* getFoundPath, hyperpath: "calculate the costs for those paths"; the
\* entries of paths from index on are costed and saved into paths_updated_cost
RECURSIVE getFoundPathUpdateCosts(_, _, _, _, _)
getFoundPathUpdateCosts(pf, ps, paths, index, paths_updated_cost) ==
    IF index > Len(paths) THEN paths_updated_cost
    ELSE LET updated == calculatePathCost(pf, ps, paths[index].path, paths[index].info)
         IN  getFoundPathUpdateCosts(pf, ps, paths, index + 1,
                 PathSetPut(paths_updated_cost, updated.path, updated.path_info))

\* the largest of a non-empty sequence of integers
RECURSIVE maxSeq(_)
maxSeq(ns) ==
    IF Len(ns) = 1 THEN ns[1]
    ELSE IF ns[1] > maxSeq(Tail(ns)) THEN ns[1] ELSE maxSeq(Tail(ns))

\* getFoundPath, hyperpath: "calculate the probabilities for those paths";
\* logsum is exp_sum / 2^max_cost
RECURSIVE getFoundPathProbabilities(_, _, _, _, _)
getFoundPathProbabilities(paths_updated_cost, index, cum_prob, exp_sum, max_cost) ==
    IF index > Len(paths_updated_cost)
    THEN [paths_updated_cost |-> paths_updated_cost, cum_prob |-> cum_prob]
    ELSE
    LET info        == paths_updated_cost[index].info
        probability == Ratio(2^(max_cost - info.cost_), exp_sum)
        prob_i      == IntegerizeProbability(probability)
        cost_cutoff == 1
    IN  \* too small to consider
        IF prob_i < cost_cutoff
        THEN getFoundPathProbabilities(
                 [paths_updated_cost EXCEPT ![index].info.probability_ = probability],
                 index + 1, cum_prob, exp_sum, max_cost)
        ELSE getFoundPathProbabilities(
                 [paths_updated_cost EXCEPT ![index].info.probability_ = probability,
                                            ![index].info.prob_i_ = cum_prob + prob_i],
                 index + 1, cum_prob + prob_i, exp_sum, max_cost)

\* getFoundPath, hyperpath: the recomputed costs of the entries of paths
\* from index on, in order
RECURSIVE getFoundPathCosts(_, _, _, _)
getFoundPathCosts(pf, ps, paths, index) ==
    IF index > Len(paths) THEN <<>>
    ELSE <<calculatePathCost(pf, ps, paths[index].path, paths[index].info).path_info.cost_>>
         \o getFoundPathCosts(pf, ps, paths, index + 1)

\* getFoundPath, hyperpath: from the logsum to "choose path"
getFoundPathChoose(p, pi, rand_state, paths_updated_cost, costs) ==
    LET max_cost == maxSeq(costs)
        \* logsum += exp(...) for the costs above zero
        exp_sum  == sumSeq([i \in 1..Len(costs) |->
                               IF costs[i] > 0 THEN 2^(max_cost - costs[i]) ELSE 0])
        fail     == [path |-> p, path_info |-> pi, ends |-> TRUE, undefined |-> FALSE,
                     rand_next |-> rand_state]
        Chosen(weighed) ==
            LET chosen == choosePath(weighed.paths_updated_cost, weighed.cum_prob, rand_state)
            IN  \* if (cum_prob == 0) { return false; }
                IF weighed.cum_prob = 0 THEN fail
                ELSE IF chosen.index = 0 THEN
                    [path |-> p, path_info |-> pi, ends |-> TRUE, undefined |-> TRUE,
                     rand_next |-> chosen.rand_next]
                ELSE [path |-> weighed.paths_updated_cost[chosen.index].path,
                      path_info |-> weighed.paths_updated_cost[chosen.index].info,
                      ends |-> TRUE, undefined |-> FALSE, rand_next |-> chosen.rand_next]
    IN  \* if (logsum == 0) { return false; }
        IF exp_sum = 0 THEN fail
        ELSE CHOOSE r \in
                 {Chosen(weighed) :
                     weighed \in {getFoundPathProbabilities(paths_updated_cost, 1, 0,
                                                            exp_sum, max_cost)}} : TRUE

\* getFoundPath, hyperpath: what follows the attempts loop
getFoundPathSampled(pf, ps, p, pi, sampled) ==
    IF sampled.undefined \/ ~sampled.ends THEN
        [path |-> p, path_info |-> pi, ends |-> sampled.ends,
         undefined |-> sampled.undefined, rand_next |-> sampled.rand_next]
    ELSE IF Len(sampled.paths) = 0 THEN
        [path |-> p, path_info |-> pi, ends |-> TRUE, undefined |-> FALSE,
         rand_next |-> sampled.rand_next]
    ELSE CHOOSE r \in
             {getFoundPathChoose(p, pi, sampled.rand_next, paths_updated_cost, costs) :
                 paths_updated_cost \in {getFoundPathUpdateCosts(pf, ps, sampled.paths, 1, <<>>)},
                 costs \in {getFoundPathCosts(pf, ps, sampled.paths, 1)}} : TRUE

\* getFoundPath, the hyperpath branch (the end TAZ has states); each stage
\* is computed once and handed to the next
getFoundPathHyperpath(pf, ps, ss_map, hss, p, pi) ==
    CHOOSE r \in
        {getFoundPathSampled(pf, ps, p, pi, sampled) :
            sampled \in {getFoundPathAttempts(pf, ps, ss_map, hss, 1, <<>>,
                                              srand(ps.path_id_))}} : TRUE

\* bool PathFinder::getFoundPath: the path, the path info, whether the call
\* returns at all, whether it ran into undefined behaviour, and the state
\* of the random number generator afterwards
getFoundPath(pf, ps, ss_map, hss, p, pi, rand_state) ==
    LET end_taz_id == IF ps.outbound_ THEN ps.origin_taz_id_ ELSE ps.destination_taz_id_
        taz_state  == ss_map[end_taz_id]
    IN  \* no taz states -> no path found
        IF Len(taz_state) = 0
        THEN [path |-> p, path_info |-> pi, ends |-> TRUE, undefined |-> FALSE,
              rand_next |-> rand_state]
        ELSE IF ps.hyperpath_ THEN getFoundPathHyperpath(pf, ps, ss_map, hss, p, pi)
        ELSE getFoundPathDeterministic(pf, ps, ss_map, p, pi, rand_state)

-----------------------------------------------------------------------------
(* findPath: one request against one supply *)

MaxTimeWindow == 2
MaxStopProcessCount == 1
MaxPathsetSize == 2

\* the schedule: trip 1 runs stop 1 -> stop 3, trip 2 stop 2 -> stop 3 and
\* trip 3 stop 1 -> stop 2; rows are (trip, sequence, stop, arrive, depart)
StopTimes ==
    << TripStopTime(1, 1, 1, 5, 5), TripStopTime(1, 2, 3, 10, 10),
       TripStopTime(2, 1, 2, 8, 8), TripStopTime(2, 2, 3, 10, 10),
       TripStopTime(3, 1, 1, 3, 3), TripStopTime(3, 2, 2, 7, 7) >>

\* a second schedule of the same trips, in which the trips out of stop 1 and
\* stop 2 leave within two minutes of each other
StopTimesLate ==
    << TripStopTime(1, 1, 1, 9, 9), TripStopTime(1, 2, 3, 10, 10),
       TripStopTime(2, 1, 2, 8, 8), TripStopTime(2, 2, 3, 10, 10),
       TripStopTime(3, 1, 1, 7, 7), TripStopTime(3, 2, 2, 8, 8) >>

Schedules == {StopTimes, StopTimesLate}

TripIds == {StopTimes[i].trip_id_ : i \in 1..Len(StopTimes)}

\* path ids of the requests; they seed the random number generator
PathIds == {1, 256}

\* demand modes of the access and egress legs: weights are configured for
\* "walk" only; requests with another mode are made against the whole
\* schedule and the widest time window
DemandModes == {"walk", "bike"}

\* TAZ ids share the id space of the stops
Tazs == [origin |-> 4, destination |-> 5]

\* supply modes: 11 walk (access and egress), 12 bus, 13 transfer
AccessStops == {1, 2}
EgressStops == {2, 3}
\* preferred arrival times of outbound requests lie after the trips' arrivals,
\* preferred departure times of inbound requests before their departures
PreferredTimes(outbound) == IF outbound THEN {11, 12} ELSE {2, 4}

\* bump-wait tables: none; a passenger bumped from trip 2 at stop 2 waiting
\* since 7 or since 5; an entry keyed by the transit mode instead of a trip
BumpWaits ==
    {<<>>, TripStop(2, 1, 2) :> 7, TripStop(2, 1, 2) :> 5, TripStop(MODE_TRANSIT, 1, 2) :> 5}

\* the members of a set of stops as access/egress links of one minute each
RECURSIVE StopToAttr(_)
StopToAttr(stops) ==
    IF stops = {} THEN <<>>
    ELSE LET s == CHOOSE x \in stops : TRUE
         IN  (s :> [time_min |-> 1]) @@ StopToAttr(stops \ {s})

\* the tables left by initializeParameters, readIntermediateFiles,
\* initializeSupply and setBumpWait
PathFinder(time_window, max_stop_process_count, pathset_size, stoptimes, trips, access_stops, egress_stops, transfers, bump_wait) ==
    LET InService(stt) == stt.trip_id_ \in trips
        supply == initializeSupply(SelectSeq(stoptimes, InService))
        xfer   == [time_min |-> 1, walk_time_min |-> 1]
    IN  [TIME_WINDOW_ |-> time_window,
         BUMP_BUFFER_ |-> 1,
         STOCH_PATHSET_SIZE_ |-> pathset_size,
         STOCH_MAX_STOP_PROCESS_COUNT_ |-> max_stop_process_count,
         transfer_supply_mode_ |-> 13,
         taz_access_links_ |->
             (IF access_stops = {} THEN <<>>
              ELSE (Tazs.origin :> (11 :> StopToAttr(access_stops))))
             @@ (IF egress_stops = {} THEN <<>>
                 ELSE (Tazs.destination :> (11 :> StopToAttr(egress_stops)))),
         transfer_links_o_d_ |->
             IF transfers THEN (1 :> (2 :> xfer)) @@ (2 :> (1 :> xfer)) ELSE <<>>,
         transfer_links_d_o_ |->
             IF transfers THEN (2 :> (1 :> xfer)) @@ (1 :> (2 :> xfer)) ELSE <<>>,
         trip_info_ |->
             [t \in trips |-> [supply_mode_num_ |-> 12, route_id_ |-> 1, trip_attr_ |-> <<>>]],
         weight_lookup_ |->
             (UserClassMode("all", MODE_ACCESS, "walk") :>
                 (11 :> [time_min |-> 1, preferred_delay_min |-> 1]))
             @@ (UserClassMode("all", MODE_EGRESS, "walk") :>
                 (11 :> [time_min |-> 1, preferred_delay_min |-> 1]))
             @@ (UserClassMode("all", MODE_TRANSIT, "transit") :>
                 (12 :> [in_vehicle_time_min |-> 1, wait_time_min |-> 1, transfer_penalty |-> 1]))
             @@ (UserClassMode("all", MODE_TRANSFER, "transfer") :>
                 (13 :> [walk_time_min |-> 1, transfer_penalty |-> 1])),
         trip_stop_times_ |-> supply.trip_stop_times_,
         stop_trip_times_ |-> supply.stop_trip_times_,
         bump_wait_ |-> bump_wait]

\* struct PathSpecification, as filled by _fasttrips_find_path
PathSpecification(outbound, hyperpath, preferred_time, path_id, access_mode, egress_mode) ==
    [path_id_ |-> path_id, outbound_ |-> outbound, hyperpath_ |-> hyperpath, preferred_time_ |-> preferred_time,
     origin_taz_id_ |-> Tazs.origin, destination_taz_id_ |-> Tazs.destination,
     user_class_ |-> "all", access_mode_ |-> access_mode, transit_mode_ |-> "transit",
     egress_mode_ |-> egress_mode]

\* the worked example: one trip from stop 1 (departing 500) to stop 2
\* (arriving 510), five minutes of walk from the origin TAZ to stop 1 and from
\* stop 2 to the destination TAZ, unit weights on walk, in-vehicle and wait time
ExampleStopTimes == << TripStopTime(1, 1, 1, 500, 500), TripStopTime(1, 2, 2, 510, 510) >>

\* a schedule whose trip 1 leaves stop 1 two minutes before midnight and
\* reaches stop 3 eleven minutes after it, and the requests made against it:
\* to arrive by 13, or to leave at 1436
StopTimesOvernight ==
    << TripStopTime(1, 1, 1, 1438, 1438), TripStopTime(1, 2, 3, 11, 11),
       TripStopTime(2, 1, 2, 8, 8), TripStopTime(2, 2, 3, 10, 10),
       TripStopTime(3, 1, 1, 3, 3), TripStopTime(3, 2, 2, 7, 7) >>

OvernightPathFinder ==
    PathFinder(MaxTimeWindow, 0, 1, StopTimesOvernight, TripIds, AccessStops, EgressStops,
               TRUE, <<>>)

OvernightRequests ==
    {PathSpecification(outbound, hyperpath, IF outbound THEN 13 ELSE 1436, 1, "walk", "walk") :
        outbound \in BOOLEAN, hyperpath \in BOOLEAN}

\* a network with two transfer links in a row: trip 4 runs stop 7 -> stop 6,
\* trip 5 stop 7 -> stop 1, one can walk from stop 6 to stop 1 and from
\* stop 1 to stop 2, and trip 2 runs stop 2 -> stop 3; the origin is linked
\* to stop 7 and stop 3 to the destination.  The requests made against it: to arrive by 14, or to leave
\* at 3
StopTimesChain ==
    << TripStopTime(4, 1, 7, 5, 5), TripStopTime(4, 2, 6, 7, 7),
       TripStopTime(5, 1, 7, 4, 4), TripStopTime(5, 2, 1, 8, 8),
       TripStopTime(2, 1, 2, 10, 10), TripStopTime(2, 2, 3, 12, 12) >>

ChainPathFinder ==
    [PathFinder(MaxTimeWindow, 0, 1, StopTimesChain, {2, 4, 5}, {7}, {3}, FALSE, <<>>) EXCEPT
        !.transfer_links_o_d_ =
            (6 :> (1 :> [time_min |-> 1, walk_time_min |-> 1]))
            @@ (1 :> (2 :> [time_min |-> 1, walk_time_min |-> 1])),
        !.transfer_links_d_o_ =
            (1 :> (6 :> [time_min |-> 1, walk_time_min |-> 1]))
            @@ (2 :> (1 :> [time_min |-> 1, walk_time_min |-> 1]))]

ChainRequests ==
    {PathSpecification(outbound, FALSE, IF outbound THEN 14 ELSE 3, 1, "walk", "walk") :
        outbound \in BOOLEAN}

ExamplePathFinder ==
    [PathFinder(30, 0, 1, ExampleStopTimes, {1}, {1}, {2}, FALSE, <<>>) EXCEPT
        !.taz_access_links_ =
            (Tazs.origin :> (11 :> (1 :> [time_min |-> 5])))
            @@ (Tazs.destination :> (11 :> (2 :> [time_min |-> 5]))),
        !.weight_lookup_ =
            (UserClassMode("all", MODE_ACCESS, "walk") :> (11 :> [time_min |-> 1]))
            @@ (UserClassMode("all", MODE_EGRESS, "walk") :> (11 :> [time_min |-> 1]))
            @@ (UserClassMode("all", MODE_TRANSIT, "transit") :>
                   (12 :> [in_vehicle_time_min |-> 1, wait_time_min |-> 1]))
            @@ (UserClassMode("all", MODE_TRANSFER, "transfer") :>
                   (13 :> [walk_time_min |-> 1]))]

\* the deterministic outbound request of the worked example
ExampleRequest == PathSpecification(TRUE, FALSE, 520, 1, "walk", "walk")

\* LabelStop last_label_stop; before its first assignment
IndeterminateLabelStop == LabelStop(NoLabel, NoStop)

Init ==
    /\ label_stop_queue = LabelStopQueue
    /\ q_op = <<>>
    /\ q_pre = <<>>
    /\ q_live = {}
    /\ q_minpushed = <<>>
    /\ a_op = <<>>
    /\ offered = <<>>
    /\ \/ \E outbound \in BOOLEAN, hyperpath \in BOOLEAN :
             \E preferred_time \in PreferredTimes(outbound),
                path_id \in (IF hyperpath THEN PathIds ELSE {1}),
                access_mode \in DemandModes, egress_mode \in DemandModes :
                path_spec = PathSpecification(outbound, hyperpath, preferred_time, path_id,
                                              access_mode, egress_mode)
       \/ path_spec = ExampleRequest
       \/ path_spec \in OvernightRequests
       \/ path_spec \in ChainRequests
    /\ \/ path_spec = ExampleRequest /\ pathfinder = ExamplePathFinder
       \/ path_spec \in OvernightRequests /\ pathfinder = OvernightPathFinder
       \/ path_spec \in ChainRequests /\ pathfinder = ChainPathFinder
       \/ /\ path_spec # ExampleRequest
          /\ path_spec \notin OvernightRequests
          /\ path_spec \notin ChainRequests
          /\ \E time_window \in 0..MaxTimeWindow, trips \in SUBSET TripIds,
                access_stops \in SUBSET AccessStops, egress_stops \in SUBSET EgressStops,
                transfers \in BOOLEAN :
                \E stoptimes \in (IF path_spec.hyperpath_ /\ time_window = MaxTimeWindow
                                  THEN Schedules ELSE {StopTimes}),
                   pathset_size \in (IF path_spec.hyperpath_ THEN 1..MaxPathsetSize ELSE {1}),
                   bump_wait \in (IF path_spec.hyperpath_ THEN {<<>>} ELSE BumpWaits) :
                \E max_stop_process_count \in
                       (IF path_spec.hyperpath_ /\ path_spec.path_id_ = 1 /\ pathset_size = 1
                        THEN 0..MaxStopProcessCount ELSE {0}) :
                   /\ \/ path_spec.access_mode_ = "walk" /\ path_spec.egress_mode_ = "walk"
                      \/ time_window = MaxTimeWindow /\ trips = TripIds
                   /\ pathfinder = PathFinder(time_window, max_stop_process_count,
                                              pathset_size, stoptimes, trips, access_stops,
                                              egress_stops, transfers, bump_wait)
    /\ stop_states = <<>>
    /\ hyperpath_ss = <<>>
    /\ pc = "findPath"
    /\ last_label_stop = IndeterminateLabelStop
    /\ label_iterations = 0
    /\ max_process_count = 0
    /\ path = <<>>
    /\ path_info = PathInfo(0, 0, FALSE, Ratio(0, 1), 0)
    /\ l_op = <<>>
    /\ rand_next = 1


\* the three containers of a findPath call, as handed to the labeling steps
Containers ==
    [stop_states |-> stop_states, label_stop_queue |-> label_stop_queue,
     hyperpath_ss |-> hyperpath_ss]

\* findPath: initializeStopStates, and the entry of labelStops
InitializeStopStates ==
    /\ pc = "findPath"
    /\ LET R == initializeStopStates(pathfinder, path_spec, Containers)
       IN  /\ stop_states' = R.stop_states
           /\ label_stop_queue' = R.label_stop_queue
           /\ hyperpath_ss' = R.hyperpath_ss
    /\ label_iterations' = 1
    /\ pc' = "labelStops"
    /\ UNCHANGED <<queue_vars_harness, pathfinder, path_spec, a_op, offered,
                   last_label_stop, max_process_count, path, path_info, l_op, rand_next>>

\* labelStops with the process-count limit never applying
processLimitReached_never(pf, ps, hss, stop_id) == FALSE

\* labelStops: have we hit the configured limit?
processLimitReached(pf, ps, hss, stop_id) ==
    /\ ps.hyperpath_
    /\ pf.STOCH_MAX_STOP_PROCESS_COUNT_ > 0
    /\ hss[stop_id].process_count_ = pf.STOCH_MAX_STOP_PROCESS_COUNT_

\* labelStops: one round of the while loop.  last_label_stop is read before
\* it was ever assigned in the first round: its stop id is then either the
\* popped stop's or another value.
LabelStops ==
    /\ pc = "labelStops"
    /\ ~empty(label_stop_queue)
    /\ LET popped == pop_top(label_stop_queue)
           current_label_stop == popped.ret
           stop_id == current_label_stop.stop_id_
       IN  IF popped.err # "none" THEN
               /\ pc' = "LabelStopQueueError"
               /\ label_stop_queue' = popped.queue
               /\ l_op' = [op |-> "error", stop_id_ |-> NoStop]
               /\ UNCHANGED <<stop_states, hyperpath_ss, last_label_stop, label_iterations,
                              max_process_count>>
           ELSE
           \E last_stop_id \in (IF last_label_stop = IndeterminateLabelStop
                                THEN {NoStop, stop_id}
                                ELSE {last_label_stop.stop_id_}) :
               IF stop_id = last_stop_id THEN
                   \* if we just processed this one, then skip
                   /\ label_stop_queue' = popped.queue
                   /\ last_label_stop' = [last_label_stop EXCEPT !.stop_id_ = last_stop_id]
                   /\ l_op' = [op |-> "skip, just processed", stop_id_ |-> stop_id]
                   /\ UNCHANGED <<stop_states, hyperpath_ss, label_iterations,
                                  max_process_count, pc>>
               ELSE IF processLimitReached(pathfinder, path_spec, hyperpath_ss, stop_id) THEN
                   \* have we hit the configured limit?
                   /\ label_stop_queue' = popped.queue
                   /\ l_op' = [op |-> "skip, limit", stop_id_ |-> stop_id]
                   /\ UNCHANGED <<stop_states, hyperpath_ss, last_label_stop, label_iterations,
                                  max_process_count, pc>>
               ELSE
                   LET hss1 == IF path_spec.hyperpath_
                               THEN [hyperpath_ss EXCEPT ![stop_id].process_count_ = @ + 1]
                               ELSE hyperpath_ss
                       S0 == [stop_states |-> stop_states, label_stop_queue |-> popped.queue,
                              hyperpath_ss |-> hss1]
                       S1 == updateStopStatesForTransfers(pathfinder, path_spec, S0,
                                                          label_iterations, current_label_stop)
                       S2 == updateStopStatesForTrips(pathfinder, path_spec, S1,
                                                      label_iterations, current_label_stop)
                   IN  /\ stop_states' = S2.stop_states
                       /\ label_stop_queue' = S2.label_stop_queue
                       /\ hyperpath_ss' = S2.hyperpath_ss
                       /\ max_process_count' =
                              IF path_spec.hyperpath_
                                 /\ hss1[stop_id].process_count_ > max_process_count
                              THEN hss1[stop_id].process_count_ ELSE max_process_count
                       /\ label_iterations' = label_iterations + 1
                       /\ last_label_stop' = current_label_stop
                       /\ l_op' = [op |-> "relax", stop_id_ |-> stop_id]
                       /\ pc' = pc
    /\ UNCHANGED <<queue_vars_harness, pathfinder, path_spec, a_op, offered, path, path_info,
                   rand_next>>

\* labelStops returns on the empty queue; findPath goes on to finalizeTazState
FinalizeTazState ==
    /\ pc = "labelStops"
    /\ empty(label_stop_queue)
    /\ LET R == finalizeTazState(pathfinder, path_spec, Containers, label_iterations)
       IN  /\ stop_states' = R.stop_states
           /\ label_stop_queue' = R.label_stop_queue
           /\ hyperpath_ss' = R.hyperpath_ss
    /\ pc' = "getFoundPath"
    /\ UNCHANGED <<queue_vars_harness, pathfinder, path_spec, a_op, offered,
                   last_label_stop, label_iterations, max_process_count, path, path_info,
                   l_op, rand_next>>

\* getFoundPath storing the rewritten first link of the path at its stop
GetFoundPath_writesBack ==
    /\ pc = "getFoundPath"
    /\ \E R \in {getFoundPath(pathfinder, path_spec, stop_states, hyperpath_ss, path, path_info,
                               rand_next)} :
           /\ path' = R.path
           /\ path_info' = R.path_info
           /\ rand_next' = R.rand_next
           /\ pc' = IF R.undefined THEN "undefined behaviour"
                    ELSE IF R.ends THEN "done" ELSE "getFoundPath does not end"
           /\ stop_states' = IF R.path = <<>> THEN stop_states
                              ELSE MapPut(stop_states, R.path[1].first, <<R.path[1].second>>)
    /\ UNCHANGED <<label_stop_queue, queue_vars_harness, pathfinder, path_spec,
                   hyperpath_ss, a_op, offered, last_label_stop, label_iterations,
                   max_process_count, l_op>>

\* findPath: getFoundPath
GetFoundPath ==
    /\ pc = "getFoundPath"
    /\ \E R \in {getFoundPath(pathfinder, path_spec, stop_states, hyperpath_ss, path, path_info,
                               rand_next)} :
           /\ path' = R.path
           /\ path_info' = R.path_info
           /\ rand_next' = R.rand_next
           /\ pc' = IF R.undefined THEN "undefined behaviour"
                    ELSE IF R.ends THEN "done" ELSE "getFoundPath does not end"
    /\ UNCHANGED <<label_stop_queue, queue_vars_harness, pathfinder, path_spec, stop_states,
                   hyperpath_ss, a_op, offered, last_label_stop, label_iterations,
                   max_process_count, l_op>>

Next == InitializeStopStates \/ LabelStops \/ FinalizeTazState \/ GetFoundPath

Spec == Init /\ [][Next]_vars

-----------------------------------------------------------------------------
(* Properties of the LabelStopQueue, checked under SpecQueue *)

\* heap entries of stop s
EntriesOf(q, s) ==
    {i \in 1..Len(q.labelstop_priority_queue_) :
        q.labelstop_priority_queue_[i].stop_id_ = s}

\* heap entries of stop s that pop_top would accept as valid: the stop is
\* flagged valid and the entry's label equals the remembered label
AcceptedEntriesOf(q, s) ==
    {i \in EntriesOf(q, s) :
        /\ s \in DOMAIN q.labelstop_map_
        /\ q.labelstop_map_[s].valid_
        /\ q.labelstop_map_[s].label_ = q.labelstop_priority_queue_[i].label_}

ValidStops(q) == {s \in DOMAIN q.labelstop_map_ : q.labelstop_map_[s].valid_}

\* C2: for every stop id the heap holds at most one entry that pop_top would
\* accept as valid (stop flagged valid, entry label equal to the remembered
\* label); every other entry of that stop is stale.
C2_AtMostOneAcceptedEntryPerStop ==
    \A s \in QueueStops : Cardinality(AcceptedEntriesOf(label_stop_queue, s)) <= 1

\* C3: size() is the number of stops flagged valid, which is the number of
\* distinct stops pushed and not returned by pop_top since; empty() is true
\* exactly when that number is 0; stale heap entries are not counted.
C3_SizeCountsLiveStops ==
    /\ ValidStops(label_stop_queue) = q_live
    /\ size(label_stop_queue) = Cardinality(q_live)
    /\ empty(label_stop_queue) <=> (q_live = {})

\* a pop has happened and left stale entries behind, while a stop is still live
C3_Witness ==
    /\ q_op.op = "pop_top"
    /\ size(label_stop_queue) = 1
    /\ Len(label_stop_queue.labelstop_priority_queue_) >= 3

\* the (remembered label, stop id) pair that is smallest among the valid stops
MinValidLabelStop(q) ==
    CHOOSE ls \in {LabelStop(q.labelstop_map_[s].label_, s) : s \in ValidStops(q)} :
        \A s \in ValidStops(q) :
            ~LabelStopCompare(ls, LabelStop(q.labelstop_map_[s].label_, s))

\* C4: on a non-empty queue pop_top returns the (remembered label, stop id)
\* pair that is smallest among the valid stops, by ascending label and then
\* ascending stop id, and the label returned is the smallest label pushed for
\* that stop since it last became valid.
C4_PopReturnsLowestValid ==
    (q_op.op = "pop_top") =>
        /\ q_op.ret = MinValidLabelStop(q_pre)
        /\ q_op.ret.label_ = q_minpushed[q_op.ret.stop_id_]

\* a pop that had to skip a stale root, with two stops valid
C4_Witness ==
    /\ q_op.op = "pop_top"
    /\ Cardinality(ValidStops(q_pre)) = 2
    /\ Head(q_pre.labelstop_priority_queue_) # q_op.ret

\* C5: push on a stop that is valid with a remembered label <= the incoming
\* label changes nothing: heap, remembered label, validity flag, instance
\* count and size() are as before.
C5_DroppedPushChangesNothing ==
    ( /\ q_op.op = "push"
      /\ q_op.val.stop_id_ \in ValidStops(q_pre)
        /\ ~CostLess(q_op.val.label_, q_pre.labelstop_map_[q_op.val.stop_id_].label_) )
    => label_stop_queue = q_pre

\* a push of an equal label on a valid stop
C5_Witness ==
    /\ q_op.op = "push"
    /\ q_op.val.stop_id_ \in ValidStops(q_pre)
    /\ q_pre.labelstop_map_[q_op.val.stop_id_].label_ = q_op.val.label_

\* C6: a stop returned by pop_top is consumed: pop_top returns only stops
\* pushed since they were last returned, and the first push for a consumed
\* stop is accepted and makes it valid with the pushed label, whatever it is.
C6_PoppedStopIsConsumedUntilPushed ==
    /\ (q_op.op = "pop_top") => q_op.ret.stop_id_ \in q_op.live
    /\ ( /\ q_op.op = "push"
         /\ q_op.val.stop_id_ \in DOMAIN q_pre.labelstop_map_
         /\ q_op.val.stop_id_ \notin q_op.live )
       => /\ label_stop_queue.labelstop_map_[q_op.val.stop_id_].valid_
          /\ label_stop_queue.labelstop_map_[q_op.val.stop_id_].label_ = q_op.val.label_
          /\ size(label_stop_queue) = size(q_pre) + 1
          /\ \E i \in 1..Len(label_stop_queue.labelstop_priority_queue_) :
                label_stop_queue.labelstop_priority_queue_[i] = q_op.val

\* a consumed stop is pushed again with a label larger than the one popped
C6_Witness ==
    /\ q_op.op = "push"
    /\ q_op.val.stop_id_ \in DOMAIN q_pre.labelstop_map_
    /\ q_op.val.stop_id_ \notin q_op.live
    /\ CostLess(q_pre.labelstop_map_[q_op.val.stop_id_].label_, q_op.val.label_)

\* C7: with pop_top called only on a non-empty queue, pop_top never throws
\* FATAL ERROR 1 or 2 and never reads the top of an empty heap; each stop's
\* instance count is the number of heap entries carrying its id (so it is
\* positive when such an entry is at the root).
C7_NoQueueError ==
    /\ q_op.err = "none"
    /\ \A i \in 1..Len(label_stop_queue.labelstop_priority_queue_) :
          label_stop_queue.labelstop_priority_queue_[i].stop_id_
              \in DOMAIN label_stop_queue.labelstop_map_
    /\ \A s \in DOMAIN label_stop_queue.labelstop_map_ :
          label_stop_queue.labelstop_map_[s].count_
              = Cardinality(EntriesOf(label_stop_queue, s))

\* a pop that discarded at least two stale entries before returning
C7_Witness ==
    /\ q_op.op = "pop_top"
    /\ Len(q_pre.labelstop_priority_queue_)
         >= Len(label_stop_queue.labelstop_priority_queue_) + 3

-----------------------------------------------------------------------------
(* Properties of addStopState, checked under SpecAdd *)

\* C8: in deterministic mode every stop holds at most one StopState, and its
\* cost is the minimum of the costs offered to addStopState for that stop so
\* far (so the stored cost never increases).
C8_DeterministicKeepsCheapest ==
    ~path_spec.hyperpath_ =>
        /\ DOMAIN stop_states = DOMAIN offered
        /\ \A s \in DOMAIN stop_states :
              /\ Len(stop_states[s]) = 1
              /\ stop_states[s][1].cost_ = offered[s]

\* a costlier state was offered after a cheaper one and was not stored
C8_Witness ==
    /\ ~path_spec.hyperpath_
    /\ a_op.n >= 2
    /\ a_op.ss.cost_ = CostOf(2)
    /\ stop_states[a_op.stop_id][1].cost_ = CostOf(1)

\* C10: in hyperpath mode with TIME_WINDOW >= 0, after every addStopState call
\* every StopState stored on a stop lies between anchor - TIME_WINDOW and
\* anchor (outbound), or between anchor and anchor + TIME_WINDOW (inbound),
\* the anchor being the stop's latest_dep_earliest_arr.
C10_StatesWithinWindow ==
    (path_spec.hyperpath_ /\ pathfinder.TIME_WINDOW_ >= 0) =>
        \A s \in DOMAIN stop_states : \A i \in 1..Len(stop_states[s]) :
            LET anchor == hyperpath_ss[s].latest_dep_earliest_arr_
                t      == stop_states[s][i].deparr_time_
            IN  IF path_spec.outbound_
                THEN anchor - pathfinder.TIME_WINDOW_ <= t /\ t <= anchor
                ELSE anchor <= t /\ t <= anchor + pathfinder.TIME_WINDOW_

\* the last call moved the anchor and states were pruned from the stop
C10_Witness ==
    /\ path_spec.hyperpath_
    /\ a_op.n >= 2
    /\ Len(stop_states[a_op.stop_id]) < a_op.len_before
    /\ hyperpath_ss[a_op.stop_id].latest_dep_earliest_arr_ = a_op.ss.deparr_time_

-----------------------------------------------------------------------------
(* Properties of findPath, checked under Spec *)

\* the TAZ the labeling starts from and the TAZ it ends at
StartTaz == IF path_spec.outbound_ THEN path_spec.destination_taz_id_ ELSE path_spec.origin_taz_id_
EndTaz == IF path_spec.outbound_ THEN path_spec.origin_taz_id_ ELSE path_spec.destination_taz_id_

\* the (stop, minutes) walk links of a TAZ
TazLinks(taz) ==
    IF taz \notin DOMAIN pathfinder.taz_access_links_ THEN {}
    ELSE LET by_mode == pathfinder.taz_access_links_[taz]
         IN  UNION { { <<s, by_mode[sm][s]["time_min"]>> : s \in DOMAIN by_mode[sm] }
                     : sm \in DOMAIN by_mode }

\* the stop-time rows of the schedule in service
ScheduleRows ==
    UNION { { pathfinder.trip_stop_times_[t][i] : i \in 1..Len(pathfinder.trip_stop_times_[t]) }
            : t \in DOMAIN pathfinder.trip_stop_times_ }

\* Itineraries are followed from the start TAZ as the labeling does.  A
\* label (stop, time, link) says: the passenger can be at stop at that time
\* and go on to the start TAZ, the first link from the stop being link.
\* Outbound, a trip is boarded when it arrives in (time - TIME_WINDOW, time];
\* inbound, when it departs in [time, time + TIME_WINDOW).
ItineraryTripStep(L) ==
    { [stop |-> b.stop_id_,
       time |-> IF path_spec.outbound_ THEN b.depart_time_ ELSE b.arrive_time_,
       link |-> "trip"] :
      b \in { b \in ScheduleRows :
                \E l \in L, r \in ScheduleRows :
                    /\ r.stop_id_ = l.stop
                    /\ r.trip_id_ = b.trip_id_
                    /\ IF path_spec.outbound_
                       THEN /\ r.arrive_time_ <= l.time
                            /\ r.arrive_time_ > l.time - pathfinder.TIME_WINDOW_
                            /\ b.seq_ < r.seq_
                       ELSE /\ r.depart_time_ >= l.time
                            /\ r.depart_time_ < l.time + pathfinder.TIME_WINDOW_
                            /\ b.seq_ > r.seq_ } }

\* a transfer walk joins two trips: it is taken only next to a trip link
ItineraryTransferStep(L) ==
    LET links == IF path_spec.outbound_ THEN pathfinder.transfer_links_d_o_
                 ELSE pathfinder.transfer_links_o_d_
    IN  UNION { IF l.link = "trip" /\ l.stop \in DOMAIN links
                THEN { [stop |-> s,
                        time |-> l.time - links[l.stop][s]["time_min"] * dir_factor(path_spec),
                        link |-> "walk"] : s \in DOMAIN links[l.stop] }
                ELSE {} : l \in L }

RECURSIVE ItineraryLabels(_)
ItineraryLabels(L) ==
    LET L1 == L \cup ItineraryTripStep(L) \cup ItineraryTransferStep(L)
    IN  IF L1 = L THEN L ELSE ItineraryLabels(L1)

\* total minutes of every feasible itinerary access, trips joined by at most
\* one transfer walk each, egress
ItineraryCosts ==
    LET seeds == { [stop |-> e[1],
                    time |-> path_spec.preferred_time_ - e[2] * dir_factor(path_spec),
                    link |-> "walk"] : e \in TazLinks(StartTaz) }
        L == ItineraryLabels(seeds)
    IN  { (path_spec.preferred_time_ - (l.time - a[2] * dir_factor(path_spec)))
              * dir_factor(path_spec) :
          <<l, a>> \in { x \in L \X TazLinks(EndTaz) : x[1].link = "trip" /\ x[1].stop = x[2][1] } }

\* C1: a deterministic request with an empty bump-wait table that ends with a
\* path has labelled the end TAZ with the minimum total minutes over all
\* feasible itineraries, and it ends with a path whenever a feasible
\* itinerary exists.
C1_DeterministicFindsMinimumCost ==
    (pc = "done" /\ ~path_spec.hyperpath_ /\ DOMAIN pathfinder.bump_wait_ = {}) =>
        /\ path # <<>> =>
              /\ ItineraryCosts # {}
              /\ \A c \in ItineraryCosts : ~CostLess(CostOf(c), stop_states[EndTaz][1].cost_)
              /\ \E c \in ItineraryCosts : CostOf(c) = stop_states[EndTaz][1].cost_
        /\ ItineraryCosts # {} => path # <<>>

\* C9, as stated: in hyperpath mode every key of the stop-state store is a
\* key of the HyperpathState map, at every point of findPath.
C9_EveryKeyHasHyperpathState ==
    (pc # "idle" /\ path_spec.hyperpath_) => DOMAIN stop_states \subseteq DOMAIN hyperpath_ss

\* C9, amended: in hyperpath mode every stop id that holds at least one
\* StopState is a key of the HyperpathState map, at every point of findPath.
C9_EveryStopWithStatesHasHyperpathState ==
    (pc # "idle" /\ path_spec.hyperpath_) =>
        \A s \in DOMAIN stop_states : Len(stop_states[s]) > 0 => s \in DOMAIN hyperpath_ss

\* a hyperpath request whose labeling reached a stop by a trip but whose end
\* TAZ got no state from finalizeTazState
C9_Witness ==
    /\ pc = "getFoundPath"
    /\ path_spec.hyperpath_
    /\ EndTaz \in DOMAIN stop_states
    /\ Len(stop_states[EndTaz]) = 0
    /\ EndTaz \notin DOMAIN hyperpath_ss
    /\ \E s \in DOMAIN hyperpath_ss :
          /\ Len(stop_states[s]) > 0
          /\ stop_states[s][1].deparr_mode_ = MODE_TRANSIT

\* C11: in hyperpath mode with STOCH_MAX_STOP_PROCESS_COUNT > 0, every stop's
\* process_count and the reported max_process_count stay at most the cap
\* through the labeling loop, and a round that pops a stop whose count has
\* reached the cap leaves the stop states, the hyperpath states and the
\* iteration counter as they were.
C11_ProcessCountCapped ==
    [][(path_spec.hyperpath_ /\ pathfinder.STOCH_MAX_STOP_PROCESS_COUNT_ > 0) =>
          /\ \A s \in DOMAIN hyperpath_ss' :
                 hyperpath_ss'[s].process_count_ <= pathfinder.STOCH_MAX_STOP_PROCESS_COUNT_
          /\ max_process_count' <= pathfinder.STOCH_MAX_STOP_PROCESS_COUNT_
          /\ (/\ pc = "labelStops"
              /\ ~empty(label_stop_queue)
              /\ pop_top(label_stop_queue).err = "none"
              /\ hyperpath_ss[pop_top(label_stop_queue).ret.stop_id_].process_count_
                     = pathfinder.STOCH_MAX_STOP_PROCESS_COUNT_)
             => /\ stop_states' = stop_states
                /\ hyperpath_ss' = hyperpath_ss
                /\ label_iterations' = label_iterations
                /\ l_op'.op \in {"skip, limit", "skip, just processed"}]_vars

C11_Witness ==
    /\ path_spec.hyperpath_
    /\ pathfinder.STOCH_MAX_STOP_PROCESS_COUNT_ > 0
    /\ l_op # <<>>
    /\ l_op.op = "skip, limit"
    /\ hyperpath_ss[l_op.stop_id_].process_count_ = pathfinder.STOCH_MAX_STOP_PROCESS_COUNT_
    /\ max_process_count = pathfinder.STOCH_MAX_STOP_PROCESS_COUNT_

-----------------------------------------------------------------------------
(* Termination of the labeling loop, checked under SpecLabeling *)

\* the stops of the network
NetworkStops == {StopTimes[i].stop_id_ : i \in 1..Len(StopTimes)}

\* a hyperpath request with the process-count limit switched on
LimitedHyperpath ==
    path_spec.hyperpath_ /\ pathfinder.STOCH_MAX_STOP_PROCESS_COUNT_ > 0

\* before the request arrives
InitLabeling ==
    /\ NoFindPath
    /\ label_stop_queue = LabelStopQueue
    /\ q_op = <<>> /\ q_pre = <<>> /\ q_live = {} /\ q_minpushed = <<>>
    /\ pathfinder = <<>> /\ path_spec = <<>>
    /\ stop_states = <<>> /\ hyperpath_ss = <<>>
    /\ a_op = <<>> /\ offered = <<>>

\* _fasttrips_find_path is called with a hyperpath request
FindPath ==
    /\ pc = "idle"
    /\ \E outbound \in BOOLEAN :
          \E preferred_time \in PreferredTimes(outbound) :
             path_spec' = PathSpecification(outbound, TRUE, preferred_time, 1, "walk", "walk")
    /\ \E time_window \in 0..MaxTimeWindow, trips \in SUBSET TripIds,
          access_stops \in SUBSET AccessStops, egress_stops \in SUBSET EgressStops,
          transfers \in BOOLEAN, max_stop_process_count \in 1..MaxStopProcessCount :
          \E stoptimes \in (IF time_window = MaxTimeWindow THEN Schedules ELSE {StopTimes}) :
             pathfinder' = PathFinder(time_window, max_stop_process_count, 1,
                                      stoptimes, trips, access_stops, egress_stops, transfers,
                                      <<>>)
    /\ pc' = "findPath"
    /\ last_label_stop' = IndeterminateLabelStop
    /\ path_info' = PathInfo(0, 0, FALSE, Ratio(0, 1), 0)
    /\ UNCHANGED <<queue_vars, stop_states, hyperpath_ss, a_op, offered, label_iterations,
                   max_process_count, path, l_op, rand_next>>

NextLabeling == FindPath \/ Next

\* findPath is straight-line code around one loop: whichever step is enabled
\* is taken.  Whether a request ever arrives is left open.  The fairness of
\* each step is stated on what the step does to pc (under [][NextLabeling]_vars
\* only that step changes pc in that way); a round of the loop leaves pc
\* alone, and its fairness is WF_vars(LabelStops) written out, with ENABLED
\* <<LabelStops>>_vars replaced by the guard of LabelStops (a round always
\* pops an entry of the heap, so it changes the state whenever its guard holds).
LabelStopsFair ==
    \/ []<>~(pc = "labelStops" /\ ~empty(label_stop_queue))
    \/ []<><<LabelStops>>_vars

SpecLabeling ==
    /\ InitLabeling /\ [][NextLabeling]_vars
    /\ WF_pc(pc = "findPath" /\ pc' = "labelStops")
    /\ LabelStopsFair
    /\ WF_pc(pc = "labelStops" /\ empty(label_stop_queue) /\ pc' = "getFoundPath")
    /\ WF_pc(pc = "getFoundPath" /\ pc' = "done")

\* C12: in a hyperpath search with STOCH_MAX_STOP_PROCESS_COUNT > 0 the
\* number of stops popped and relaxed (label_iterations - 1) never exceeds
\* the limit times the number of stops, and the loop ends: the queue runs
\* empty, finalizeTazState and getFoundPath run and findPath returns.
C12_LabelingTerminates ==
    /\ [](pc # "idle" =>
            /\ label_iterations - 1 <=
                  pathfinder.STOCH_MAX_STOP_PROCESS_COUNT_ * Cardinality(NetworkStops)
            /\ (pc \in {"getFoundPath", "done"} => l_op = <<>> \/ l_op.op # "error"))
    /\ (pc = "findPath") ~> (pc = "labelStops" /\ empty(label_stop_queue))
    /\ (pc = "findPath") ~> (pc = "done")

C12_Witness ==
    /\ pc = "done"
    /\ LimitedHyperpath
    /\ label_iterations - 1 > Cardinality(DOMAIN pathfinder.taz_access_links_)
    /\ max_process_count = pathfinder.STOCH_MAX_STOP_PROCESS_COUNT_
    /\ l_op # <<>> /\ l_op.op = "skip, limit"

-----------------------------------------------------------------------------
(* Requests whose start TAZ cannot be left *)

\* the weights initializeStopStates looks up
StartUserClassMode ==
    UserClassMode(path_spec.user_class_,
                  IF path_spec.outbound_ THEN MODE_EGRESS ELSE MODE_ACCESS,
                  IF path_spec.outbound_ THEN path_spec.egress_mode_ ELSE path_spec.access_mode_)

StartTazUnusable ==
    \/ StartTaz \notin DOMAIN pathfinder.taz_access_links_
    \/ StartUserClassMode \notin DOMAIN pathfinder.weight_lookup_

\* C13: when the TAZ the labeling starts from (the destination, outbound;
\* the origin, inbound) has no access/egress links, or no weights are
\* configured for its leg, no stop is ever labelled and findPath returns an
\* empty path with the path cost still 0, as the caller set it.
C13_UnusableStartTazGivesNoPath ==
    StartTazUnusable =>
        /\ label_iterations <= 1
        /\ stop_states \in {<<>>, EndTaz :> <<>>}
        /\ pc = "done" => /\ Len(path) = 0
                          /\ path_info.cost_ = 0

C13_Witness ==
    /\ pc = "done"
    /\ StartTaz \in DOMAIN pathfinder.taz_access_links_
    /\ StartUserClassMode \notin DOMAIN pathfinder.weight_lookup_
    /\ EndTaz \in DOMAIN pathfinder.taz_access_links_
    /\ pathfinder.trip_stop_times_ # <<>>
    /\ path = <<>>

-----------------------------------------------------------------------------
(* The shape of the paths findPath returns *)

\* the links of the path in travel order: an outbound path is stored from the
\* origin on, an inbound path from the destination back
ChronLink(k) == path[IF path_spec.outbound_ THEN k ELSE Len(path) + 1 - k].second

\* when a link is entered and when it is left: an outbound link runs from
\* deparr_time_ to arrdep_time_, an inbound link from arrdep_time_ to
\* deparr_time_
LinkStart(ss) == IF path_spec.outbound_ THEN ss.deparr_time_ ELSE ss.arrdep_time_
LinkEnd(ss) == IF path_spec.outbound_ THEN ss.arrdep_time_ ELSE ss.deparr_time_

\* the links of the path with the given mode
LinksOfMode(mode) == {i \in 1..Len(path) : path[i].second.deparr_mode_ = mode}

\* C14: a path that is returned holds at least one transit link; in
\* particular the walk from the origin to a stop and on to the destination
\* is never returned.
C14_PathHasTransitLink ==
    (pc = "done" /\ Len(path) > 0) =>
        \E i \in 1..Len(path) : isTrip(path[i].second.deparr_mode_)

C14_Witness ==
    /\ pc = "done" /\ Len(path) > 0
    /\ TazLinks(StartTaz) \cap TazLinks(EndTaz) # {}
    /\ Cardinality(LinksOfMode(MODE_TRANSIT)) = 1

\* C15: a path that is returned has exactly one access and one egress link,
\* at its two ends: outbound, the first link is the access link at the
\* origin TAZ and the last the egress link into the destination TAZ;
\* inbound, the first link is the egress link at the destination TAZ and the
\* last the access link out of the origin TAZ.
C15_AccessAndEgressAtTheEnds ==
    (pc = "done" /\ Len(path) > 0) =>
        /\ Cardinality(LinksOfMode(MODE_ACCESS)) = 1
        /\ Cardinality(LinksOfMode(MODE_EGRESS)) = 1
        /\ IF path_spec.outbound_
           THEN /\ path[1].first = path_spec.origin_taz_id_
                /\ path[1].second.deparr_mode_ = MODE_ACCESS
                /\ path[Len(path)].second.deparr_mode_ = MODE_EGRESS
                /\ path[Len(path)].second.stop_succpred_ = path_spec.destination_taz_id_
           ELSE /\ path[1].first = path_spec.destination_taz_id_
                /\ path[1].second.deparr_mode_ = MODE_EGRESS
                /\ path[Len(path)].second.deparr_mode_ = MODE_ACCESS
                /\ path[Len(path)].second.stop_succpred_ = path_spec.origin_taz_id_

C15_Witness ==
    /\ pc = "done" /\ Len(path) > 3
    /\ ~path_spec.outbound_
    /\ path_spec.hyperpath_

\* the scheduled row of a trip at one of its stops
ScheduledRow(trip_id, seq) == pathfinder.trip_stop_times_[trip_id][seq]

\* t is the time of day scheduled, on the day of the request or on the day
\* before or after it
AtScheduledTime(t, scheduled) == (t - scheduled) % (24*60) = 0

\* C16: a path that is returned is consistent with the schedule: in travel
\* order no link starts before the link before it has ended, every transfer
\* and the egress walk start when the link before them ends, and every
\* transit link boards and alights at the trip's scheduled times (a trip
\* across midnight at its scheduled time of day, less than a day apart).
C16_PathIsScheduleConsistent ==
    (pc = "done" /\ Len(path) > 0) =>
        /\ \A k \in 2..Len(path) :
              /\ LinkStart(ChronLink(k)) >= LinkEnd(ChronLink(k - 1))
              /\ ChronLink(k).deparr_mode_ \in {MODE_TRANSFER, MODE_EGRESS}
                    => LinkStart(ChronLink(k)) = LinkEnd(ChronLink(k - 1))
        /\ \A k \in 1..Len(path) :
              LET ss    == ChronLink(k)
                  board == IF path_spec.outbound_ THEN ss.seq_ ELSE ss.seq_succpred_
                  alight == IF path_spec.outbound_ THEN ss.seq_succpred_ ELSE ss.seq_
              IN  isTrip(ss.deparr_mode_) =>
                     /\ AtScheduledTime(LinkStart(ss),
                                        ScheduledRow(ss.trip_id_, board).depart_time_)
                     /\ AtScheduledTime(LinkEnd(ss),
                                        ScheduledRow(ss.trip_id_, alight).arrive_time_)
                     /\ LinkEnd(ss) - LinkStart(ss) \in 0..(24*60 - 1)

\* the same, for the requests against schedules without a trip across
\* midnight
C16_ConsistentWithinOneDay ==
    (\A t \in DOMAIN pathfinder.trip_stop_times_ :
        \A i \in 2..Len(pathfinder.trip_stop_times_[t]) :
            ScheduledRow(t, i - 1).depart_time_ <= ScheduledRow(t, i).arrive_time_)
        => C16_PathIsScheduleConsistent

C16_Witness ==
    /\ pc = "done" /\ Len(path) > 0
    /\ Cardinality(LinksOfMode(MODE_TRANSFER)) > 0
    /\ Cardinality(LinksOfMode(MODE_TRANSIT)) > 1

-----------------------------------------------------------------------------
(* Reproducibility *)

\* C17: in deterministic mode everything the labeling loop reads is fixed by
\* the inputs, so that two calls with the same inputs return the same path,
\* cost and number of label iterations; in particular the popped stop is
\* skipped as "just processed" only when a stop has been processed before,
\* and that stop is the popped one.
C17_DeterministicLabelingIsReproducible ==
    (~path_spec.hyperpath_ /\ l_op # <<>> /\ l_op.op = "skip, just processed") =>
        /\ label_iterations > 1
        /\ last_label_stop.label_ # NoLabel

\* states the random number generator may be in when findPath is called
RandStates == {1, 40000}

\* C18: in hyperpath mode the path returned is fixed by the inputs and the
\* path id: getFoundPath seeds the generator with the path id before the
\* first draw, so the path does not depend on the state earlier requests left
\* the generator in, and the labeling that the sampling starts from is fixed
\* by the inputs (a stop is skipped as "just processed" only after a stop
\* has been processed).
C18_HyperpathIsReproducible ==
    path_spec.hyperpath_ =>
        /\ pc = "done" =>
              \A r \in RandStates :
                 LET again == getFoundPath(pathfinder, path_spec, stop_states, hyperpath_ss,
                                           <<>>, PathInfo(0, 0, FALSE, Ratio(0, 1), 0), r)
                 IN  again.path = path /\ again.path_info = path_info
                     /\ again.rand_next = rand_next
        /\ (l_op # <<>> /\ l_op.op = "skip, just processed") => label_iterations > 1

-----------------------------------------------------------------------------
(* Sampler failure *)

\* the paths the sampling attempts of the request find, one entry per
\* attempt that did not dead-end
RECURSIVE AttemptsFound(_, _)
AttemptsFound(attempts, rand_state) ==
    IF attempts > pathfinder.STOCH_PATHSET_SIZE_ THEN <<>>
    ELSE LET generated == hyperpathGeneratePath(pathfinder, path_spec, stop_states,
                                                hyperpath_ss, rand_state)
         IN  (IF generated.found THEN <<generated.path>> ELSE <<>>)
             \o AttemptsFound(attempts + 1, generated.rand_next)

\* the end TAZ was labelled and the sampler fails: every attempt dead-ends,
\* or no path found has a cost above zero (the logit sum is zero)
SamplerFails ==
    /\ path_spec.hyperpath_
    /\ Len(stop_states[EndTaz]) > 0
    /\ LET found == AttemptsFound(1, srand(path_spec.path_id_))
       IN  \A i \in 1..Len(found) :
              calculatePathCost(pathfinder, path_spec, found[i],
                                PathInfo(1, 0, FALSE, Ratio(0, 1), 0)).path_info.cost_ <= 0

\* C19: in hyperpath mode, when every sampling attempt dead-ends or the
\* logit sum over the recomputed path costs is zero, findPath returns with
\* the output path empty and the path information as the caller set it.
C19_SamplerFailureGivesNoPath ==
    (pc = "done" /\ SamplerFails) =>
        /\ Len(path) = 0
        /\ path_info = PathInfo(0, 0, FALSE, Ratio(0, 1), 0)

C19_Witness ==
    /\ pc = "done"
    /\ SamplerFails
    /\ pathfinder.STOCH_PATHSET_SIZE_ > 1
    /\ path = <<>>

-----------------------------------------------------------------------------
(* Recomputing the cost of a path twice *)

\* the paths of the request before their costs are recomputed: the path
\* the deterministic branch follows back from the end TAZ, or the paths the
\* sampling attempts find
UncostedPaths ==
    IF Len(stop_states[EndTaz]) = 0 THEN {}
    ELSE IF path_spec.hyperpath_
    THEN LET found == AttemptsFound(1, srand(path_spec.path_id_))
         IN  {found[i] : i \in 1..Len(found)}
    ELSE LET ss       == stop_states[EndTaz][1]
             followed == getFoundPathLoop(path_spec, stop_states,
                                          <<[first |-> EndTaz, second |-> ss]>>, ss,
                                          Cardinality(DOMAIN stop_states))
         IN  IF followed.ends THEN {followed.path} ELSE {}

\* the transfer links calculatePathCost put between two consecutive trips
SynthesizedTransfers(p) ==
    {i \in 1..Len(p) : /\ p[i].second.deparr_mode_ = MODE_TRANSFER
                       /\ p[i].second.iteration_ = 0 - 1
                       /\ p[i].second.link_time_ = 0}

\* the same links in the same order, link by link
SamePath(p, q) ==
    /\ Len(p) = Len(q)
    /\ \A i \in 1..Len(p) : p[i] = q[i]

\* C20: calculatePathCost applied to the path and path information it
\* produced returns them unchanged (same links in the same order, same
\* times and costs, same total cost), for outbound and inbound requests
\* and for paths it put zero-walk transfer links into.
C20_CalculatePathCostIsIdempotent ==
    pc = "done" =>
        /\ \A raw \in UncostedPaths :
              LET once  == calculatePathCost(pathfinder, path_spec, raw,
                                             PathInfo(1, 0, FALSE, Ratio(0, 1), 0))
                  twice == calculatePathCost(pathfinder, path_spec, once.path, once.path_info)
              IN  SamePath(twice.path, once.path) /\ twice.path_info = once.path_info
        /\ Len(path) > 0 =>
              LET again == calculatePathCost(pathfinder, path_spec, path, path_info)
              IN  SamePath(again.path, path) /\ again.path_info = path_info

C20_Witness ==
    /\ pc = "done"
    /\ ~path_spec.outbound_
    /\ SynthesizedTransfers(path) # {}
    /\ \E raw \in UncostedPaths : Len(raw) < Len(path)
    /\ path_info.cost_ > 0

-----------------------------------------------------------------------------
(* The worked example *)

ExampleAsked == path_spec.preferred_time_ = ExampleRequest.preferred_time_

\* C21: for the one-trip network (trip 1 leaves stop 1 at 500 and reaches
\* stop 2 at 510, access and egress walks of 5 minutes), the deterministic
\* outbound request with preferred time 520 returns the access link to
\* stop 1, trip 1 from stop 1 to stop 2 and the egress link from stop 2, in
\* that order; the trip has 10 minutes in the vehicle and no wait, the
\* access link ends at 500, and the path cost is 20.
C21_ExamplePathAndCost ==
    (ExampleAsked /\ pc = "done") =>
        /\ Len(path) = 3
        /\ path[1].first = Tazs.origin
        /\ path[1].second.deparr_mode_ = MODE_ACCESS
        /\ path[1].second.stop_succpred_ = 1
        /\ path[1].second.arrdep_time_ = 500
        /\ path[2].first = 1
        /\ path[2].second.deparr_mode_ = MODE_TRANSIT
        /\ path[2].second.trip_id_ = 1
        /\ path[2].second.stop_succpred_ = 2
        /\ path[2].second.arrdep_time_ - path[2].second.deparr_time_ = 10
        /\ path[2].second.link_time_ = 10
        /\ path[3].first = 2
        /\ path[3].second.deparr_mode_ = MODE_EGRESS
        /\ path[3].second.stop_succpred_ = Tazs.destination
        /\ path_info.cost_ = 20

\* the same, for the calls in which the first stop popped is not taken for
\* the stop processed just before
C21_ExamplePathUnlessFirstStopDropped ==
    (ExampleAsked /\ pc = "done" /\ label_iterations > 1) => C21_ExamplePathAndCost

-----------------------------------------------------------------------------
(* The time window of getTripsWithinTime *)

\* the rows of the schedule in service, from the per-trip table
ServedRows ==
    UNION {{pathfinder.trip_stop_times_[t][i] : i \in 1..Len(pathfinder.trip_stop_times_[t])} :
              t \in DOMAIN pathfinder.trip_stop_times_}

\* the rows at a stop whose event lies in (t - TIME_WINDOW, t] (outbound,
\* arrivals) or in [t, t + TIME_WINDOW) (inbound, departures)
RowsInWindow(stop_id, outbound, t) ==
    {row \in ServedRows :
        /\ row.stop_id_ = stop_id
        /\ IF outbound
           THEN t - pathfinder.TIME_WINDOW_ < row.arrive_time_ /\ row.arrive_time_ <= t
           ELSE t <= row.depart_time_ /\ row.depart_time_ < t + pathfinder.TIME_WINDOW_}

\* getTripsWithinTime returns the rows in the window, each once
ReturnsRowsInWindow(stop_id, outbound, t) ==
    LET return_trips == getTripsWithinTime(pathfinder, stop_id, outbound, t)
    IN  /\ {return_trips[i] : i \in 1..Len(return_trips)} = RowsInWindow(stop_id, outbound, t)
        /\ Len(return_trips) = Cardinality(RowsInWindow(stop_id, outbound, t))

\* the timepoints labelStops asks about at a labelled stop
TimepointsAt(stop_id) ==
    {stop_states[stop_id][i].deparr_time_ : i \in 1..Len(stop_states[stop_id])}

\* the event time of a row: its arrival (outbound) or departure (inbound)
EventTime(row, outbound) == IF outbound THEN row.arrive_time_ ELSE row.depart_time_

\* the minutes up to TIME_WINDOW + 1 away from an event of the schedule
TimepointsNearEvents ==
    {EventTime(row, TRUE) + d :
        row \in ServedRows,
        d \in (0 - pathfinder.TIME_WINDOW_ - 1)..(pathfinder.TIME_WINDOW_ + 1)}

\* C22: getTripsWithinTime(stop, outbound, t) returns exactly the rows at
\* the stop that arrive in (t - TIME_WINDOW, t] when outbound, or depart in
\* [t, t + TIME_WINDOW) when inbound; checked for every stop, direction and
\* minute near an event of the schedule when the request arrives, and for the timepoints
\* of the labelled stops while the labeling runs.
C22_TripsWithinHalfOpenWindow ==
    /\ (pc = "findPath" /\ ~ExampleAsked) =>
           \A stop_id \in NetworkStops \cup {Tazs.origin}, outbound \in BOOLEAN,
              t \in TimepointsNearEvents :
              ReturnsRowsInWindow(stop_id, outbound, t)
    /\ pc = "labelStops" =>
           \A stop_id \in DOMAIN stop_states : \A t \in TimepointsAt(stop_id) :
              ReturnsRowsInWindow(stop_id, path_spec.outbound_, t)

C22_Witness ==
    /\ pc = "labelStops"
    /\ l_op # <<>> /\ l_op.op = "relax"
    /\ pathfinder.TIME_WINDOW_ > 0
    /\ \E stop_id \in DOMAIN stop_states : \E t \in TimepointsAt(stop_id) :
          \E at_t \in ServedRows, at_edge \in ServedRows :
             /\ at_t.stop_id_ = stop_id /\ at_edge.stop_id_ = stop_id
             /\ EventTime(at_t, path_spec.outbound_) = t
             /\ EventTime(at_edge, path_spec.outbound_)
                    = t - pathfinder.TIME_WINDOW_ * dir_factor(path_spec)
             /\ at_t \in RowsInWindow(stop_id, path_spec.outbound_, t)
             /\ at_edge \notin RowsInWindow(stop_id, path_spec.outbound_, t)

-----------------------------------------------------------------------------
(* Bump wait in the deterministic outbound search *)

\* the stop relaxed by the last round of labelStops, and its state
RelaxedStop == l_op.stop_id_
RelaxedState == stop_states[RelaxedStop][1]

DeterministicOutboundRelaxed ==
    /\ ~path_spec.hyperpath_ /\ path_spec.outbound_
    /\ pc = "labelStops"
    /\ l_op # <<>> /\ l_op.op = "relax"

\* the transfer states the last round created towards the relaxed stop
NewTransfersTo(stop_id) ==
    {st \in UNION {{stop_states[x][i] : i \in 1..Len(stop_states[x])} : x \in DOMAIN stop_states} :
        /\ st.deparr_mode_ = MODE_TRANSFER
        /\ st.stop_succpred_ = stop_id
        /\ st.iteration_ = label_iterations - 1}

\* C23: in the deterministic outbound relaxation of the transfers to a stop
\* whose (trip, seq, stop) has a bump-wait entry, a transfer is kept only
\* when its departure time minus TIME_WINDOW is strictly before the entry's
\* time: at equality it is skipped.  For a kept transfer link_cost_ is the
\* transfer time, so the candidate departure is the stop's time minus it.
C23_BumpWaitAtEqualitySkips ==
    DeterministicOutboundRelaxed =>
        LET ts == TripStop(RelaxedState.trip_id_, RelaxedState.seq_, RelaxedStop)
        IN  ts \in DOMAIN pathfinder.bump_wait_ =>
               \A st \in NewTransfersTo(RelaxedStop) :
                  (RelaxedState.deparr_time_ - st.link_time_) - pathfinder.TIME_WINDOW_
                      < pathfinder.bump_wait_[ts]

\* a deterministic outbound search just finalized, whose origin TAZ has its
\* only access link to a stop labelled by a trip
FinalStop == CHOOSE s \in DOMAIN pathfinder.taz_access_links_[Tazs.origin][11] : TRUE
FinalState == stop_states[FinalStop][1]
FinalKey == TripStop(FinalState.trip_id_, FinalState.seq_, FinalStop)
FinalAccessTime == pathfinder.taz_access_links_[Tazs.origin][11][FinalStop]["time_min"]
OriginStates == stop_states[Tazs.origin]

DeterministicOutboundFinalized ==
    /\ ~path_spec.hyperpath_ /\ path_spec.outbound_
    /\ pc = "getFoundPath"
    /\ path_spec.access_mode_ = "walk"
    /\ Tazs.origin \in DOMAIN pathfinder.taz_access_links_
    /\ Cardinality(DOMAIN pathfinder.taz_access_links_[Tazs.origin][11]) = 1
    /\ FinalStop \in DOMAIN stop_states
    /\ FinalState.deparr_mode_ = MODE_TRANSIT

\* the access link was skipped, or stored with the penalty and the shift
FinalLinkBumped(latest_time) ==
    IF (FinalState.deparr_time_ - FinalAccessTime) - pathfinder.TIME_WINDOW_ > latest_time
    THEN OriginStates = <<>>
    ELSE /\ Len(OriginStates) = 1
         /\ OriginStates[1].deparr_time_ =
                latest_time - FinalAccessTime - pathfinder.BUMP_BUFFER_
         /\ OriginStates[1].cost_ =
                CostAdd(FinalState.cost_,
                        FinalAccessTime + (FinalState.deparr_time_ - latest_time)
                            + pathfinder.BUMP_BUFFER_)

\* the access link was stored as if there were no bump-wait table
FinalLinkPlain ==
    /\ Len(OriginStates) = 1
    /\ OriginStates[1].deparr_time_ = FinalState.deparr_time_ - FinalAccessTime
    /\ OriginStates[1].cost_ = CostAdd(FinalState.cost_, FinalAccessTime)

\* an entry under the (trip, seq, stop) key skips or penalises the access link
FinalKeyEntryApplies ==
    (DeterministicOutboundFinalized /\ FinalKey \in DOMAIN pathfinder.bump_wait_)
        => FinalLinkBumped(pathfinder.bump_wait_[FinalKey])

\* an entry under any other key leaves the access link alone
FinalOtherEntryIgnored ==
    (DeterministicOutboundFinalized /\ FinalKey \notin DOMAIN pathfinder.bump_wait_)
        => FinalLinkPlain

\* C29: the finalization of a deterministic outbound search looks the
\* bump-wait table up under the key of the transfer relaxation, (trip id of
\* the stop's front state, its seq, the stop id): an entry under that key
\* skips the access link or adds the penalty and shifts the departure, and an
\* entry under any other key has no effect.
C29_FinalizationUsesTripKey == FinalKeyEntryApplies /\ FinalOtherEntryIgnored

-----------------------------------------------------------------------------
(* The hyperpath cost of a stop over its addStopState calls *)

\* the stored hyperpath cost of a stop did not grow in this step
HyperpathCostNotRaised(stop_id) ==
    (stop_id \in DOMAIN hyperpath_ss /\ stop_id \in DOMAIN hyperpath_ss')
        => ~CostLess(hyperpath_ss[stop_id].hyperpath_cost_,
                     hyperpath_ss'[stop_id].hyperpath_cost_)

\* C24: in hyperpath mode no addStopState call raises the stored
\* hyperpath_cost_ of a stop: over any sequence of calls it only falls or
\* stays.
C24_HyperpathCostNeverIncreases ==
    [][path_spec.hyperpath_ => \A stop_id \in DOMAIN hyperpath_ss : HyperpathCostNotRaised(stop_id)]_vars

-----------------------------------------------------------------------------
(* The pathset after the sampling loop *)

\* the request is about to sample from a labelled end TAZ
AboutToSample ==
    /\ pc = "getFoundPath"
    /\ path_spec.hyperpath_
    /\ Len(stop_states[EndTaz]) > 0

\* the sum of count_ over the entries of a PathSet
RECURSIVE CountSum(_)
CountSum(paths) ==
    IF paths = <<>> THEN 0 ELSE Head(paths).info.count_ + CountSum(Tail(paths))

\* what has to hold of the pathset the loop leaves, given the paths its
\* attempts found
PathSetAccounts(sampled, found) ==
    (~sampled.undefined /\ sampled.ends) =>
        /\ \A i, j \in 1..Len(sampled.paths) :
              i # j => ~SamePath(sampled.paths[i].path, sampled.paths[j].path)
        /\ CountSum(sampled.paths) = Len(found)
        /\ Len(found) <= pathfinder.STOCH_PATHSET_SIZE_
        /\ Len(sampled.paths) <= Cardinality({found[i] : i \in 1..Len(found)})
        /\ \A i \in 1..Len(sampled.paths) :
              sampled.paths[i].info.count_ =
                  Cardinality({a \in 1..Len(found) : SamePath(found[a], sampled.paths[i].path)})

\* the pathset and the paths found by the attempts of the request
SampledPathSet ==
    getFoundPathAttempts(pathfinder, path_spec, stop_states, hyperpath_ss, 1, <<>>,
                         srand(path_spec.path_id_))

\* C25: after the sampling loop the pathset holds no two equal paths, its
\* count_ fields sum to the number of attempts that produced a path (at most
\* STOCH_PATHSET_SIZE_), each entry counting the attempts that produced that
\* very path, and it has no more entries than there are distinct paths found.
C25_PathSetDeduplicatesAndCounts ==
    AboutToSample =>
        \A sampled \in {SampledPathSet} :
            \A found \in {AttemptsFound(1, srand(path_spec.path_id_))} :
                PathSetAccounts(sampled, found)

\* two attempts produced the same path, counted twice in one entry
C25_Witness ==
    /\ AboutToSample
    /\ pathfinder.STOCH_PATHSET_SIZE_ = 2
    /\ \E sampled \in {SampledPathSet} :
          /\ sampled.ends /\ ~sampled.undefined
          /\ Len(sampled.paths) = 1
          /\ sampled.paths[1].info.count_ = 2

-----------------------------------------------------------------------------
(* Trips across midnight *)

\* every time of the schedule lies within one day
ScheduleWithinOneDay ==
    \A t \in DOMAIN pathfinder.trip_stop_times_ :
        \A i \in 1..Len(pathfinder.trip_stop_times_[t]) :
            /\ pathfinder.trip_stop_times_[t][i].arrive_time_ \in 0..(24*60 - 1)
            /\ pathfinder.trip_stop_times_[t][i].depart_time_ \in 0..(24*60 - 1)

\* the TRANSIT states stored, each with the stop it is stored at
TransitStates ==
    UNION {{[stop_id |-> x, ss |-> stop_states[x][i]] : i \in 1..Len(stop_states[x])} :
              x \in DOMAIN stop_states \ {Tazs.origin, Tazs.destination}}

\* the time the schedule gives for boarding (outbound) or alighting (inbound)
\* the trip of a TRANSIT state at the stop holding the state
ScheduledBoardAlight(e) ==
    LET row == pathfinder.trip_stop_times_[e.ss.trip_id_][e.ss.seq_]
    IN  IF path_spec.outbound_ THEN row.depart_time_ ELSE row.arrive_time_

\* the in-vehicle time of a TRANSIT state: from its deparr_time_ to its
\* arrdep_time_, the trip's time at the successor (predecessor) stop
InVehicleTime(ss) == (ss.arrdep_time_ - ss.deparr_time_) * dir_factor(path_spec)

\* C26: with all schedule times within one day, every TRANSIT state that
\* updateStopStatesForTrips stores has a non-negative in-vehicle time, in
\* both directions; its board/alight time is the scheduled one, or the
\* scheduled one moved by exactly 24*60 minutes when the trip's time at the
\* other end lies on the wrong side of it.
C26_InVehicleTimeNonNegative ==
    ScheduleWithinOneDay =>
        \A e \in {x \in TransitStates : x.ss.deparr_mode_ = MODE_TRANSIT} :
            /\ InVehicleTime(e.ss) >= 0
            /\ IF path_spec.outbound_
               THEN e.ss.deparr_time_ =
                       IF e.ss.arrdep_time_ < ScheduledBoardAlight(e)
                       THEN ScheduledBoardAlight(e) - 24*60 ELSE ScheduledBoardAlight(e)
               ELSE e.ss.deparr_time_ =
                       IF ScheduledBoardAlight(e) < e.ss.arrdep_time_
                       THEN ScheduledBoardAlight(e) + 24*60 ELSE ScheduledBoardAlight(e)

\* a request to leave late in the evening has labelled a stop by a trip that
\* arrives there after midnight
C26_Witness ==
    /\ ScheduleWithinOneDay
    /\ ~path_spec.outbound_
    /\ \E e \in TransitStates :
          /\ e.ss.deparr_mode_ = MODE_TRANSIT
          /\ e.ss.deparr_time_ = ScheduledBoardAlight(e) + 24*60
          /\ InVehicleTime(e.ss) > 0

-----------------------------------------------------------------------------
(* No walk after a walk in the deterministic search *)

\* the stored TRANSFER states, each with the stop it is stored at
TransferStates ==
    {e \in TransitStates : e.ss.deparr_mode_ = MODE_TRANSFER}

\* two links in a row of the path are TRANSFER links
BackToBackTransfers(p) ==
    \E i \in 1..(Len(p) - 1) :
        /\ p[i].second.deparr_mode_ = MODE_TRANSFER
        /\ p[i + 1].second.deparr_mode_ = MODE_TRANSFER

-----------------------------------------------------------------------------
(* The links a sampling attempt chooses *)

\* walking links, in the order of the descent
WalkBefore == IF path_spec.outbound_ THEN {MODE_ACCESS, MODE_TRANSFER}
              ELSE {MODE_EGRESS, MODE_TRANSFER}
WalkAfter == IF path_spec.outbound_ THEN {MODE_TRANSFER, MODE_EGRESS}
             ELSE {MODE_TRANSFER, MODE_ACCESS}

\* the state of the labeling a link of a sampled path was chosen from
StoredState(link) ==
    CHOOSE st \in {stop_states[link.first][i] : i \in 1..Len(stop_states[link.first])} :
        SameLink(st, link.second)

\* follows a sampled path p from its link i on, as the attempt chose it:
\* prefix is the path built so far and arrdep_time the time the attempt had
\* reached; TRUE when no link was chosen against the clock
RECURSIVE ChosenInTime(_, _, _, _)
ChosenInTime(p, i, prefix, arrdep_time) ==
    IF i > Len(p) THEN TRUE
    ELSE LET stored == StoredState(p[i])
             fixed  == hyperpathFixTimes(pathfinder, path_spec, prefix, stored, p[i].first,
                                         arrdep_time, p[i - 1].second.deparr_mode_)
         IN  /\ IF path_spec.outbound_ THEN stored.deparr_time_ >= arrdep_time
                ELSE stored.deparr_time_ <= arrdep_time
             /\ ChosenInTime(p, i + 1,
                             Append(fixed.path, [first |-> p[i].first, second |-> fixed.next_ss]),
                             fixed.next_ss.arrdep_time_)

\* what has to hold of a path a sampling attempt produced
SampledPathIsSound(p) ==
    /\ \A i \in 1..(Len(p) - 1) :
          /\ ~(p[i].second.deparr_mode_ \in WalkBefore /\ p[i + 1].second.deparr_mode_ \in WalkAfter)
          /\ ~( /\ p[i].second.deparr_mode_ = MODE_TRANSIT
                /\ p[i + 1].second.deparr_mode_ = MODE_TRANSIT
                /\ p[i].second.trip_id_ = p[i + 1].second.trip_id_ )
    /\ LET ss == StoredState(p[1])
       IN  ChosenInTime(p, 2, <<[first |-> p[1].first, second |-> ss]>>,
                        ss.deparr_time_ + ss.link_time_ * dir_factor(path_spec))

\* C28: in every path a successful sampling attempt produces no walk follows
\* a walk, no trip follows a link of the same trip, and no state was chosen
\* that departs before (outbound) or arrives after (inbound) the time the
\* attempt had reached with its previous link.
C28_SampledPathsAreSound ==
    AboutToSample =>
        \A found \in {AttemptsFound(1, srand(path_spec.path_id_))} :
            \A a \in 1..Len(found) : SampledPathIsSound(found[a])

\* an outbound attempt arrived at a stop by a trip, passed over a state that
\* leaves the stop before that arrival and that the modes and the trip would
\* have allowed, and went on with another state to a complete path
C28_Witness ==
    /\ AboutToSample
    /\ path_spec.outbound_
    /\ \E found \in {AttemptsFound(1, srand(path_spec.path_id_))} :
          \E a \in 1..Len(found) :
             \E i \in 3..Len(found[a]) :
                \E k \in 1..Len(stop_states[found[a][i].first]) :
                   LET st == stop_states[found[a][i].first][k]
                   IN  /\ found[a][i - 1].second.deparr_mode_ = MODE_TRANSIT
                       /\ \/ st.deparr_mode_ = MODE_TRANSFER
                          \/ /\ st.deparr_mode_ = MODE_TRANSIT
                             /\ st.trip_id_ # found[a][i - 1].second.trip_id_
                       /\ st.deparr_time_ < found[a][i - 1].second.arrdep_time_

-----------------------------------------------------------------------------
(* Seeded stops in the hyperpath labeling *)

\* the mode of the states initializeStopStates seeds the stops with
SeedMode == IF path_spec.outbound_ THEN MODE_EGRESS ELSE MODE_ACCESS

\* the modes of the states a stop holds
ModesAt(stop_id) ==
    {stop_states[stop_id][i].deparr_mode_ : i \in 1..Len(stop_states[stop_id])}

\* C30: in hyperpath mode no stop ever holds both a seed state (EGRESS for
\* outbound, ACCESS for inbound) and a TRANSIT state.  The relaxation of
\* trips looks at the first state of the stop only, and that is enough: a
\* stop that holds a seed state at any index holds one at index 0.
C30_SeededStopsGetNoTrip ==
    path_spec.hyperpath_ =>
        \A stop_id \in DOMAIN stop_states \ {Tazs.origin, Tazs.destination} :
            SeedMode \in ModesAt(stop_id) =>
                /\ MODE_TRANSIT \notin ModesAt(stop_id)
                /\ stop_states[stop_id][1].deparr_mode_ = SeedMode

\* the stop just relaxed is served, within the time window, by a trip that
\* also serves, earlier (outbound) or later (inbound) on its way, a stop that
\* holds its seed state and nothing else
C30_Witness ==
    /\ path_spec.hyperpath_
    /\ pc = "labelStops"
    /\ l_op # <<>> /\ l_op.op = "relax"
    /\ \E it \in RowsInWindow(l_op.stop_id_, path_spec.outbound_,
                             hyperpath_ss[l_op.stop_id_].latest_dep_earliest_arr_) :
          \E row \in ServedRows :
             /\ row.trip_id_ = it.trip_id_
             /\ IF path_spec.outbound_ THEN row.seq_ < it.seq_ ELSE row.seq_ > it.seq_
             /\ row.stop_id_ \in DOMAIN stop_states
             /\ ModesAt(row.stop_id_) = {SeedMode}

-----------------------------------------------------------------------------
(* The anchor of a stop's time window over the addStopState calls *)

\* the later (outbound) or earlier (inbound) of two times
Foremost(t, u) ==
    IF path_spec.outbound_ THEN (IF t > u THEN t ELSE u) ELSE (IF t < u THEN t ELSE u)

\* this step is a call of addStopState in hyperpath mode
HyperpathCall == path_spec.hyperpath_ /\ a_op'.n = a_op.n + 1

\* C31: in hyperpath mode with TIME_WINDOW >= 0 each addStopState call leaves
\* the anchor latest_dep_earliest_arr of its stop at the later (outbound,
\* earlier for inbound) of the anchor before and the deparr_time offered, and
\* the first call for a stop sets it to the time offered.  So the anchor moves
\* one way only and is the latest (earliest) time ever offered for the stop,
\* stored or not.  The anchors of the other stops stay.
C31_AnchorIsForemostOffered ==
    [][(HyperpathCall /\ pathfinder.TIME_WINDOW_ >= 0) =>
          /\ hyperpath_ss'[a_op'.stop_id].latest_dep_earliest_arr_ =
                IF a_op'.stop_id \in DOMAIN hyperpath_ss
                THEN Foremost(hyperpath_ss[a_op'.stop_id].latest_dep_earliest_arr_,
                              a_op'.ss.deparr_time_)
                ELSE a_op'.ss.deparr_time_
          /\ \A x \in DOMAIN hyperpath_ss \ {a_op'.stop_id} :
                hyperpath_ss'[x].latest_dep_earliest_arr_ =
                    hyperpath_ss[x].latest_dep_earliest_arr_]_vars

\* the state that set the anchor of the stop is not stored any more, and the
\* last state offered lay behind the anchor
C31_Witness ==
    /\ path_spec.hyperpath_
    /\ a_op.n >= 2
    /\ Len(stop_states[a_op.stop_id]) > 0
    /\ \A i \in 1..Len(stop_states[a_op.stop_id]) :
          stop_states[a_op.stop_id][i].deparr_time_
              # hyperpath_ss[a_op.stop_id].latest_dep_earliest_arr_
    /\ a_op.ss.deparr_time_ # hyperpath_ss[a_op.stop_id].latest_dep_earliest_arr_

-----------------------------------------------------------------------------
(* A state offered outside the time window *)

\* this step offers a state that fails the window test of its stop
RejectedCall ==
    /\ HyperpathCall
    /\ a_op'.stop_id \in DOMAIN hyperpath_ss
    /\ OutsideWindow(pathfinder, path_spec, a_op'.ss.deparr_time_,
                     hyperpath_ss[a_op'.stop_id].latest_dep_earliest_arr_)

\* C32: in hyperpath mode with TIME_WINDOW >= 0 an addStopState call whose
\* state fails the window test changes nothing: the stored states of every
\* stop, the anchor, its trip, hyperpath_cost and process_count of every stop,
\* and the label stop queue are all as before the call.
C32_RejectedStateChangesNothing ==
    [][(RejectedCall /\ pathfinder.TIME_WINDOW_ >= 0) =>
          UNCHANGED <<stop_states, hyperpath_ss, label_stop_queue>>]_vars

\* the last state offered failed the window test of a stop that holds states
C32_Witness ==
    /\ path_spec.hyperpath_
    /\ a_op.n >= 2
    /\ pathfinder.TIME_WINDOW_ >= 0
    /\ OutsideWindow(pathfinder, path_spec, a_op.ss.deparr_time_,
                     hyperpath_ss[a_op.stop_id].latest_dep_earliest_arr_)
    /\ Len(stop_states[a_op.stop_id]) = a_op.len_before

-----------------------------------------------------------------------------
(* The log-sum recomputed by an accepted addStopState call *)

\* this step offers a state that passes the window test of a stop with states
AcceptedCall ==
    /\ HyperpathCall
    /\ a_op'.stop_id \in DOMAIN hyperpath_ss
    /\ ~OutsideWindow(pathfinder, path_spec, a_op'.ss.deparr_time_,
                      hyperpath_ss[a_op'.stop_id].latest_dep_earliest_arr_)

\* the log-sum over the costs of the states a stop holds
StoredLogSum(ss_map, stop_id) == LogSum(SeqCosts(ss_map[stop_id]))

\* C33: in hyperpath mode, after every accepted addStopState call on a stop
\* that has states, the log-sum recomputed by the call is the log-sum over the
\* costs of exactly the states stored after the call (a substituted state with
\* its new cost, pruned states left out, an appended state included).  When it
\* differs from the stored hyperpath_cost by more than 0.0001 it replaces it
\* and the stop is pushed with the new value as label; otherwise
\* hyperpath_cost stays.
C33_LogSumIsOverStoredStates ==
    [][AcceptedCall =>
          \A after \in {StoredLogSum(stop_states', a_op'.stop_id)} :
             IF AbsDiffExceeds(after, hyperpath_ss[a_op'.stop_id].hyperpath_cost_)
             THEN /\ hyperpath_ss'[a_op'.stop_id].hyperpath_cost_ = after
                  /\ label_stop_queue' =
                        push(label_stop_queue, LabelStop(after, a_op'.stop_id))
             ELSE hyperpath_ss'[a_op'.stop_id].hyperpath_cost_ =
                     hyperpath_ss[a_op'.stop_id].hyperpath_cost_]_vars

\* the last call was accepted, pruned stored states and kept the state offered
C33_Witness ==
    /\ path_spec.hyperpath_
    /\ a_op.n >= 2
    /\ Len(stop_states[a_op.stop_id]) < a_op.len_before
    /\ \E i \in 1..Len(stop_states[a_op.stop_id]) :
          SameLink(stop_states[a_op.stop_id][i], a_op.ss)
    /\ hyperpath_ss[a_op.stop_id].hyperpath_cost_ = StoredLogSum(stop_states, a_op.stop_id)

-----------------------------------------------------------------------------
(* One stored state per link *)

\* C39: in hyperpath mode no stop holds two StopStates that agree on
\* deparr_mode, trip_id, stop_succpred and seq_succpred.
C39_OneStatePerLink ==
    path_spec.hyperpath_ =>
        \A stop_id \in DOMAIN stop_states :
            \A i, j \in 1..Len(stop_states[stop_id]) :
                SameLink(stop_states[stop_id][i], stop_states[stop_id][j]) => i = j

\* the last call replaced the first of two stored states by the state offered
C39_Witness ==
    /\ path_spec.hyperpath_
    /\ a_op.n >= 3
    /\ a_op.len_before = 2
    /\ Len(stop_states[a_op.stop_id]) = 2
    /\ SameLink(stop_states[a_op.stop_id][1], a_op.ss)
    /\ stop_states[a_op.stop_id][1].deparr_time_ = a_op.ss.deparr_time_
    /\ stop_states[a_op.stop_id][1].cost_ = a_op.ss.cost_

-----------------------------------------------------------------------------
(* The label-iteration count *)

\* the number of pops that got as far as the relaxation in hyperpath mode:
\* each of them adds one to the process_count_ of its stop
RECURSIVE ProcessCountSum(_)
ProcessCountSum(stops) ==
    IF stops = {} THEN 0
    ELSE LET stop_id == CHOOSE x \in stops : TRUE
         IN  hyperpath_ss[stop_id].process_count_ + ProcessCountSum(stops \ {stop_id})

\* labelStops has returned
LabelStopsReturned == pc \in {"getFoundPath", "done"}

\* C34: the label-iteration count returned by labelStops and reported by
\* findPath is the number of stops popped and relaxed, pops skipped by the
\* repeat guard or the process-count cap not counted; it is 0 when nothing was
\* relaxed.
C34_CountIsRelaxedPops ==
    (LabelStopsReturned /\ path_spec.hyperpath_) =>
        label_iterations = ProcessCountSum(DOMAIN hyperpath_ss)

\* what the code returns: one more than the number of stops relaxed, so 1
\* when the queue was empty from the start
C34_CountIsOneMore ==
    (LabelStopsReturned /\ path_spec.hyperpath_) =>
        label_iterations = ProcessCountSum(DOMAIN hyperpath_ss) + 1

-----------------------------------------------------------------------------
(* Following stop_succpred from the end TAZ in deterministic mode *)

\* how the walk along stop_succpred from stop_id goes, each stop giving its
\* front state: it "ends" at a state of the final mode, comes to a stop
\* "without state", or "revisits" a stop it has been at
RECURSIVE SuccpredWalk(_, _)
SuccpredWalk(stop_id, visited) ==
    LET ss == stop_states[stop_id][1]
        next_stop == ss.stop_succpred_
    IN  IF ss.deparr_mode_ = (IF path_spec.outbound_ THEN MODE_EGRESS ELSE MODE_ACCESS)
        THEN "ends"
        ELSE IF Len(StatesAt(stop_states, next_stop)) = 0 THEN "without state"
        ELSE IF next_stop \in visited \cup {stop_id} THEN "revisits"
        ELSE SuccpredWalk(next_stop, visited \cup {stop_id})

\* labeling is over, deterministic mode, and the end TAZ holds a state
DeterministicEndTazLabelled ==
    /\ ~path_spec.hyperpath_
    /\ pc \notin {"findPath", "labelStops"}
    /\ Len(StatesAt(stop_states, EndTaz)) > 0

-----------------------------------------------------------------------------
(* Termination of deterministic labeling, checked under SpecDeterministic *)

\* _fasttrips_find_path is called with a deterministic request; the
\* bump-wait table is empty
FindPathDeterministic ==
    /\ pc = "idle"
    /\ \/ /\ \E outbound \in BOOLEAN :
                \E preferred_time \in PreferredTimes(outbound) :
                   path_spec' = PathSpecification(outbound, FALSE, preferred_time, 1,
                                                  "walk", "walk")
          /\ \E time_window \in 0..MaxTimeWindow, trips \in SUBSET TripIds,
                access_stops \in SUBSET AccessStops, egress_stops \in SUBSET EgressStops,
                transfers \in BOOLEAN :
                pathfinder' = PathFinder(time_window, 0, 1, StopTimes, trips, access_stops,
                                         egress_stops, transfers, <<>>)
       \/ /\ path_spec' \in ChainRequests
          /\ pathfinder' = ChainPathFinder
       \/ /\ path_spec' \in {ps \in OvernightRequests : ~ps.hyperpath_}
          /\ pathfinder' = OvernightPathFinder
    /\ pc' = "findPath"
    /\ last_label_stop' = IndeterminateLabelStop
    /\ path_info' = PathInfo(0, 0, FALSE, Ratio(0, 1), 0)
    /\ UNCHANGED <<queue_vars, stop_states, hyperpath_ss, a_op, offered, label_iterations,
                   max_process_count, path, l_op, rand_next>>

NextDeterministic == FindPathDeterministic \/ Next

\* the steps of findPath are taken as under SpecLabeling
SpecDeterministic ==
    /\ InitLabeling /\ [][NextDeterministic]_vars
    /\ WF_pc(pc = "findPath" /\ pc' = "labelStops")
    /\ LabelStopsFair
    /\ WF_pc(pc = "labelStops" /\ empty(label_stop_queue) /\ pc' = "getFoundPath")
    /\ WF_pc(pc = "getFoundPath" /\ pc' = "done")

\* the cost stored for a stop whose single state is replaced gets lower
ReplacementLowersCost(stop_id) ==
    (/\ Len(StatesAt(stop_states, stop_id)) > 0
     /\ Len(StatesAt(stop_states', stop_id)) > 0
     /\ stop_states'[stop_id] # stop_states[stop_id])
    => CostLess(stop_states'[stop_id][1].cost_, stop_states[stop_id][1].cost_)

\* C36: in deterministic mode on a finite network with walk times that are
\* not negative and an empty bump-wait table, the cost stored for a stop gets
\* strictly lower at each replacement, and the labeling loop ends: the queue
\* runs empty and findPath returns.
C36_DeterministicLabelingTerminates ==
    /\ [][\A stop_id \in DOMAIN stop_states' : ReplacementLowersCost(stop_id)]_vars
    /\ [](pc # "LabelStopQueueError")
    /\ (pc = "findPath") ~> (pc = "labelStops" /\ empty(label_stop_queue))
    /\ (pc = "findPath") ~> (pc = "done")

\* labeling ended after the state of a stop had been replaced: the heap still
\* holds the entry of the stop's earlier, higher cost
C36_Witness ==
    /\ pc = "done"
    /\ ~path_spec.hyperpath_
    /\ empty(label_stop_queue)
    /\ label_iterations > 2
    /\ \E i \in 1..Len(label_stop_queue.labelstop_priority_queue_) :
          \A ls \in {label_stop_queue.labelstop_priority_queue_[i]} :
             /\ Len(StatesAt(stop_states, ls.stop_id_)) = 1
             /\ CostLess(stop_states[ls.stop_id_][1].cost_, ls.label_)

-----------------------------------------------------------------------------
(* The remembered label of a queued stop in deterministic mode *)

\* what the next pop_top hands to the relaxation
NextPop == pop_top(label_stop_queue)

\* C37: in deterministic mode, whenever a stop is valid in the label stop
\* queue its remembered label equals the cost of the single StopState stored
\* for the stop; so the label pop_top returns for a stop equals the cost of
\* the stop's stored state.
C37_QueuedLabelIsStoredCost ==
    (~path_spec.hyperpath_ /\ pc # "idle") =>
        /\ \A stop_id \in ValidStops(label_stop_queue) :
              /\ Len(StatesAt(stop_states, stop_id)) = 1
              /\ label_stop_queue.labelstop_map_[stop_id].label_
                    = stop_states[stop_id][1].cost_
        /\ (pc = "labelStops" /\ ~empty(label_stop_queue)) =>
              \A popped \in {NextPop} :
                 /\ popped.err = "none"
                 /\ popped.ret.label_ = stop_states[popped.ret.stop_id_][1].cost_

\* a stop whose state was replaced by a cheaper one is valid in the queue,
\* with the entry of its earlier label still in the heap
C37_Witness ==
    /\ ~path_spec.hyperpath_
    /\ pc = "labelStops"
    /\ \E i \in 1..Len(label_stop_queue.labelstop_priority_queue_) :
          \A ls \in {label_stop_queue.labelstop_priority_queue_[i]} :
             /\ ls.stop_id_ \in ValidStops(label_stop_queue)
             /\ CostLess(stop_states[ls.stop_id_][1].cost_, ls.label_)

-----------------------------------------------------------------------------
(* Deterministic cost as time away from the preferred time *)

\* no trip reaches a stop before it left an earlier one, so that no time is
\* moved by a day
TripsRunForward ==
    \A t \in DOMAIN pathfinder.trip_stop_times_ :
        \A i, j \in 1..Len(pathfinder.trip_stop_times_[t]) :
            i < j => pathfinder.trip_stop_times_[t][i].depart_time_
                        <= pathfinder.trip_stop_times_[t][j].arrive_time_

\* deterministic mode, empty bump-wait table, no midnight adjustment
DeterministicPlain ==
    /\ pc # "idle"
    /\ ~path_spec.hyperpath_
    /\ pathfinder.bump_wait_ = <<>>
    /\ TripsRunForward

\* the time a state lies before (outbound) or after (inbound) the preferred time
TimeAway(ss) ==
    IF path_spec.outbound_ THEN path_spec.preferred_time_ - ss.deparr_time_
    ELSE ss.deparr_time_ - path_spec.preferred_time_

\* a stop's single state is replaced only by one that departs strictly later
\* (outbound) or arrives strictly earlier (inbound)
ReplacementMovesTime(stop_id) ==
    (/\ Len(StatesAt(stop_states, stop_id)) > 0
     /\ Len(StatesAt(stop_states', stop_id)) > 0
     /\ stop_states'[stop_id] # stop_states[stop_id])
    => TimeAway(stop_states'[stop_id][1]) < TimeAway(stop_states[stop_id][1])

\* C38: in deterministic mode with an empty bump-wait table and no midnight
\* adjustment, every StopState stored during a findPath call (seed, transfer,
\* trip and end-TAZ states) has cost = preferred_time - deparr_time for an
\* outbound request and cost = deparr_time - preferred_time for an inbound
\* one; hence a state replaces another only if it departs strictly later
\* (outbound) or arrives strictly earlier (inbound).
C38_CostIsTimeFromPreferred ==
    /\ [](DeterministicPlain =>
            \A stop_id \in DOMAIN stop_states :
                \A i \in 1..Len(stop_states[stop_id]) :
                    stop_states[stop_id][i].cost_ = CostOf(TimeAway(stop_states[stop_id][i])))
    /\ [][DeterministicPlain =>
            \A stop_id \in DOMAIN stop_states' : ReplacementMovesTime(stop_id)]_vars

\* findPath has returned with a TRANSFER state and the end TAZ's state stored
\* and with a stop whose state was replaced (the heap still holds its earlier
\* label)
C38_Witness ==
    /\ DeterministicPlain
    /\ pc = "done"
    /\ Len(StatesAt(stop_states, EndTaz)) = 1
    /\ \E stop_id \in DOMAIN stop_states :
          /\ Len(stop_states[stop_id]) = 1
          /\ stop_states[stop_id][1].deparr_mode_ = MODE_TRANSFER
    /\ \E i \in 1..Len(label_stop_queue.labelstop_priority_queue_) :
          \A ls \in {label_stop_queue.labelstop_priority_queue_[i]} :
             /\ Len(StatesAt(stop_states, ls.stop_id_)) = 1
             /\ CostLess(stop_states[ls.stop_id_][1].cost_, ls.label_)

-----------------------------------------------------------------------------
(* Path reconstruction reads the stop states *)

\* a link of the path whose times differ from those of the state stored for
\* it: the path holds a rewritten copy
RewrittenLinks ==
    {i \in 1..Len(path) :
        \E j \in 1..Len(StatesAt(stop_states, path[i].first)) :
            /\ SameLink(stop_states[path[i].first][j], path[i].second)
            /\ stop_states[path[i].first][j].deparr_time_ # path[i].second.deparr_time_}

====
